---------------------------- MODULE Spec2Model ----------------------------
(***************************************************************************)
(* A model of the recommendation engine of the Common Assessment Tool      *)
(* (app/clients/service/logic.py) and of the training column layout of     *)
(* its oracle (app/clients/service/model.py).                              *)
(*                                                                         *)
(* Python values are tagged records, since the code dispatches on the      *)
(* dynamic type (isinstance(value, str)): t is the type, n the number of   *)
(* an int, a bool or a float (the floats that occur are whole), s the      *)
(* characters of a str.  An ASCII character is the                         *)
(* one-character string, any other character is named by its code point    *)
(* ("U+00B2").  The outcome of a Python call is a returned value or a      *)
(* raised exception: st says which, val is the value returned and exc the  *)
(* exception raised.                                                       *)
(***************************************************************************)
EXTENDS Integers, Sequences, FiniteSets, TLC

VARIABLES
  text_data,     \* convert_text: the argument of the last call
  text_out,      \* convert_text: its outcome
  input_data,    \* clean_input_data / interpret_and_calculate: the argument of the last call
  output,        \* clean_input_data: the outcome of the last call
  MODEL,         \* the oracle loaded at module load
  top_order,     \* interpret_and_calculate: result_order[-3:] of the last call
  result,        \* interpret_and_calculate: the outcome of the last call
  oracle_calls,  \* interpret_and_calculate: the calls of MODEL.predict the last call made
  perm_num,      \* intervention_permutations: the argument of the last call
  perm_out,      \* intervention_permutations: its outcome
  perm_prev_num, \* intervention_permutations: the argument of the call before it
  perm_prev_out, \* intervention_permutations: the outcome of the call before it
  flags_row,     \* intervention_row_to_names: the argument of the last call
  names_out,     \* intervention_row_to_names: its outcome
  earlier,       \* interpret_and_calculate: per argument, the first call made with it
  again,         \* interpret_and_calculate: the last call had an argument seen before
  pc,            \* concurrent interpret_and_calculate: per call, the line it executes next
  frame,         \* concurrent interpret_and_calculate: per call, its argument and local variables
  clients,       \* the rows of table clients
  users,         \* the rows of table users
  client_cases,  \* the rows of table client_cases
  request,       \* ClientService: the last call and its arguments
  response,      \* ClientService: the HTTP status of the last call
  returned,      \* ClientService: the value the last call returned
  db_before,     \* ClientService: the three tables as they were before the last call
  deleted        \* ClientService: the ids of the clients delete_client has deleted

\* The state of the calls of the recommendation engine.
engine_vars == <<text_data, text_out, input_data, output, MODEL, top_order, result, oracle_calls>>

\* The state of the calls of the functions of the intervention space.
space_vars == <<perm_num, perm_out, perm_prev_num, perm_prev_out, flags_row, names_out>>

\* The record of the calls made.
call_vars == <<earlier, again>>

\* The state of the calls of interpret_and_calculate that run concurrently.
conc_vars == <<pc, frame>>

\* The database and the calls of ClientService.
client_vars == <<clients, users, client_cases, request, response, returned, db_before, deleted>>

vars == <<engine_vars, space_vars, call_vars, conc_vars, client_vars>>

(***************************************************************************)
(* Python values and call outcomes                                         *)
(***************************************************************************)
PyInt(n) == [t |-> "int", n |-> n, s |-> <<>>]

PyBool(b) == [t |-> "bool", n |-> IF b THEN 1 ELSE 0, s |-> <<>>]

PyFloat(x) == [t |-> "float", n |-> x, s |-> <<>>]

PyStr(s) == [t |-> "str", n |-> 0, s |-> s]

PyNone == [t |-> "NoneType", n |-> 0, s |-> <<>>]

IsStr(value) == value.t = "str"

\* A native number: int, bool (a subclass of int in Python) or float.
IsNumber(value) == value.t \in {"int", "bool", "float"}

\* The number a native number counts as in arithmetic and in an array.
NumOf(value) == value.n

Return(value) == [st |-> "return", exc |-> "", val |-> value]

\* `empty` fills val, which a raising call does not give.
Raise(exc, empty) == [st |-> "raise", exc |-> exc, val |-> empty]

\* No call made yet.
NoCall(empty) == [st |-> "none", exc |-> "", val |-> empty]

Returned(outcome) == outcome.st = "return"

Raised(outcome) == outcome.st = "raise"

\* What val holds when clean_input_data, interpret_and_calculate give none.
NoList == <<>>

NoRecommendation == [baseline |-> PyNone, interventions |-> <<>>]

(***************************************************************************)
(* str.isnumeric and int(str)                                              *)
(***************************************************************************)
\* Characters of Unicode category Nd, with their digit value.
DecimalDigits ==
  { <<"0", 0>>, <<"1", 1>>, <<"2", 2>>, <<"3", 3>>, <<"4", 4>>, <<"5", 5>>,
    <<"6", 6>>, <<"7", 7>>, <<"8", 8>>, <<"9", 9>>,
    <<"U+0663", 3>> }   \* ARABIC-INDIC DIGIT THREE

IsDecimal(c) == \E d \in DecimalDigits : d[1] = c

DigitValue(c) == (CHOOSE d \in DecimalDigits : d[1] = c)[2]

\* Characters whose Numeric_Type is Digit or Numeric but which are not Nd:
\* SUPERSCRIPT TWO, VULGAR FRACTION ONE HALF.
OtherNumerics == {"U+00B2", "U+00BD"}

IsNumericChar(c) == IsDecimal(c) \/ c \in OtherNumerics

\* str.isnumeric(): at least one character, and all of them numeric.
isnumeric(s) == Len(s) > 0 /\ \A i \in 1..Len(s) : IsNumericChar(s[i])

Whitespace == {" "}

RECURSIVE lstrip(_)
lstrip(s) == IF Len(s) > 0 /\ s[1] \in Whitespace THEN lstrip(Tail(s)) ELSE s

RECURSIVE rstrip(_)
rstrip(s) ==
  IF Len(s) > 0 /\ s[Len(s)] \in Whitespace
  THEN rstrip(SubSeq(s, 1, Len(s) - 1)) ELSE s

strip(s) == rstrip(lstrip(s))

\* The digits of an int literal: decimal digits, single underscores allowed
\* between two digits.
IsDigitString(s) ==
  /\ Len(s) > 0
  /\ \A i \in 1..Len(s) : IsDecimal(s[i]) \/ s[i] = "_"
  /\ s[1] # "_" /\ s[Len(s)] # "_"
  /\ \A i \in 1..(Len(s) - 1) : ~(s[i] = "_" /\ s[i + 1] = "_")

RECURSIVE DigitsValue(_)
DigitsValue(s) ==
  IF Len(s) = 0 THEN 0
  ELSE IF s[Len(s)] = "_" THEN DigitsValue(SubSeq(s, 1, Len(s) - 1))
  ELSE 10 * DigitsValue(SubSeq(s, 1, Len(s) - 1)) + DigitValue(s[Len(s)])

\* int(s) for a str s, base 10: surrounding whitespace stripped, an optional
\* sign, then the digits; anything else raises ValueError.
int(s) ==
  LET body == strip(s)
      signed == Len(body) > 0 /\ body[1] \in {"+", "-"}
      digits == IF signed THEN Tail(body) ELSE body
  IN  IF IsDigitString(digits)
      THEN Return(PyInt(IF signed /\ body[1] = "-"
                      THEN 0 - DigitsValue(digits) ELSE DigitsValue(digits)))
      ELSE Raise("ValueError", PyNone)

(***************************************************************************)
(* convert_text                                                            *)
(***************************************************************************)
categorical_mappings ==
  <<
    \* boolean synonyms
    {
      \* "": 0
      [code |-> 0, key |-> <<>>],
      \* "true": 1
      [code |-> 1, key |-> <<"t","r","u","e">>],
      \* "false": 0
      [code |-> 0, key |-> <<"f","a","l","s","e">>],
      \* "no": 0
      [code |-> 0, key |-> <<"n","o">>],
      \* "yes": 1
      [code |-> 1, key |-> <<"y","e","s">>],
      \* "No": 0
      [code |-> 0, key |-> <<"N","o">>],
      \* "Yes": 1
      [code |-> 1, key |-> <<"Y","e","s">>]
    },
    \* level of schooling
    {
      \* "Grade 0-8": 1
      [code |-> 1, key |-> <<"G","r","a","d","e"," ","0","-","8">>],
      \* "Grade 9": 2
      [code |-> 2, key |-> <<"G","r","a","d","e"," ","9">>],
      \* "Grade 10": 3
      [code |-> 3, key |-> <<"G","r","a","d","e"," ","1","0">>],
      \* "Grade 11": 4
      [code |-> 4, key |-> <<"G","r","a","d","e"," ","1","1">>],
      \* "Grade 12 or equivalent": 5
      [code |-> 5, key |-> <<"G","r","a","d","e"," ","1","2"," ","o","r"," ","e","q","u","i","v","a","l","e","n","t">>],
      \* "OAC or Grade 13": 6
      [code |-> 6, key |-> <<"O","A","C"," ","o","r"," ","G","r","a","d","e"," ","1","3">>],
      \* "Some college": 7
      [code |-> 7, key |-> <<"S","o","m","e"," ","c","o","l","l","e","g","e">>],
      \* "Some university": 8
      [code |-> 8, key |-> <<"S","o","m","e"," ","u","n","i","v","e","r","s","i","t","y">>],
      \* "Some apprenticeship": 9
      [code |-> 9, key |-> <<"S","o","m","e"," ","a","p","p","r","e","n","t","i","c","e","s","h","i","p">>],
      \* "Certificate of Apprenticeship": 10
      [code |-> 10, key |-> <<"C","e","r","t","i","f","i","c","a","t","e"," ","o","f"," ","A","p","p","r","e","n","t","i","c","e","s","h","i","p">>],
      \* "Journeyperson": 11
      [code |-> 11, key |-> <<"J","o","u","r","n","e","y","p","e","r","s","o","n">>],
      \* "Certificate/Diploma": 12
      [code |-> 12, key |-> <<"C","e","r","t","i","f","i","c","a","t","e","/","D","i","p","l","o","m","a">>],
      \* "Bachelor's degree": 13
      [code |-> 13, key |-> <<"B","a","c","h","e","l","o","r","'","s"," ","d","e","g","r","e","e">>],
      \* "Post graduate": 14
      [code |-> 14, key |-> <<"P","o","s","t"," ","g","r","a","d","u","a","t","e">>]
    },
    \* housing
    {
      \* "Renting-private": 1
      [code |-> 1, key |-> <<"R","e","n","t","i","n","g","-","p","r","i","v","a","t","e">>],
      \* "Renting-subsidized": 2
      [code |-> 2, key |-> <<"R","e","n","t","i","n","g","-","s","u","b","s","i","d","i","z","e","d">>],
      \* "Boarding or lodging": 3
      [code |-> 3, key |-> <<"B","o","a","r","d","i","n","g"," ","o","r"," ","l","o","d","g","i","n","g">>],
      \* "Homeowner": 4
      [code |-> 4, key |-> <<"H","o","m","e","o","w","n","e","r">>],
      \* "Living with family/friend": 5
      [code |-> 5, key |-> <<"L","i","v","i","n","g"," ","w","i","t","h"," ","f","a","m","i","l","y","/","f","r","i","e","n","d">>],
      \* "Institution": 6
      [code |-> 6, key |-> <<"I","n","s","t","i","t","u","t","i","o","n">>],
      \* "Temporary second residence": 7
      [code |-> 7, key |-> <<"T","e","m","p","o","r","a","r","y"," ","s","e","c","o","n","d"," ","r","e","s","i","d","e","n","c","e">>],
      \* "Band-owned home": 8
      [code |-> 8, key |-> <<"B","a","n","d","-","o","w","n","e","d"," ","h","o","m","e">>],
      \* "Homeless or transient": 9
      [code |-> 9, key |-> <<"H","o","m","e","l","e","s","s"," ","o","r"," ","t","r","a","n","s","i","e","n","t">>],
      \* "Emergency hostel": 10
      [code |-> 10, key |-> <<"E","m","e","r","g","e","n","c","y"," ","h","o","s","t","e","l">>]
    },
    \* income source
    {
      \* "No Source of Income": 1
      [code |-> 1, key |-> <<"N","o"," ","S","o","u","r","c","e"," ","o","f"," ","I","n","c","o","m","e">>],
      \* "Employment Insurance": 2
      [code |-> 2, key |-> <<"E","m","p","l","o","y","m","e","n","t"," ","I","n","s","u","r","a","n","c","e">>],
      \* "Workplace Safety and Insurance Board": 3
      [code |-> 3, key |-> <<"W","o","r","k","p","l","a","c","e"," ","S","a","f","e","t","y"," ","a","n","d"," ","I","n","s","u","r","a","n","c","e"," ","B","o","a","r","d">>],
      \* "Ontario Works applied or receiving": 4
      [code |-> 4, key |-> <<"O","n","t","a","r","i","o"," ","W","o","r","k","s"," ","a","p","p","l","i","e","d"," ","o","r"," ","r","e","c","e","i","v","i","n","g">>],
      \* "Ontario Disability Support Program applied or receiving": 5
      [code |-> 5, key |-> <<"O","n","t","a","r","i","o"," ","D","i","s","a","b","i","l","i","t","y"," ","S","u","p","p","o","r","t"," ","P","r","o","g","r","a","m"," ","a","p","p","l","i","e","d"," ","o","r"," ","r","e","c","e","i","v","i","n","g">>],
      \* "Dependent of someone receiving OW or ODSP": 6
      [code |-> 6, key |-> <<"D","e","p","e","n","d","e","n","t"," ","o","f"," ","s","o","m","e","o","n","e"," ","r","e","c","e","i","v","i","n","g"," ","O","W"," ","o","r"," ","O","D","S","P">>],
      \* "Crown Ward": 7
      [code |-> 7, key |-> <<"C","r","o","w","n"," ","W","a","r","d">>],
      \* "Employment": 8
      [code |-> 8, key |-> <<"E","m","p","l","o","y","m","e","n","t">>],
      \* "Self-Employment": 9
      [code |-> 9, key |-> <<"S","e","l","f","-","E","m","p","l","o","y","m","e","n","t">>],
      \* "Other (specify)": 10
      [code |-> 10, key |-> <<"O","t","h","e","r"," ","(","s","p","e","c","i","f","y",")">>]
    }
  >>

InCategory(category, s) == \E e \in category : e.key = s

Lookup(category, s) == (CHOOSE e \in category : e.key = s).code

\* Mutant of FirstMatch: the loop runs over categorical_mappings[1:], so the
\* boolean synonyms are never consulted.
RECURSIVE FirstMatchFromSecond(_, _)
FirstMatchFromSecond(i, s) ==
  IF i > Len(categorical_mappings) THEN NoCall(PyNone)
  ELSE IF i > 1 /\ InCategory(categorical_mappings[i], s)
       THEN Return(PyInt(Lookup(categorical_mappings[i], s)))
       ELSE FirstMatchFromSecond(i + 1, s)

\* for category in categorical_mappings: if text_data in category: return ...
RECURSIVE FirstMatch(_, _)
FirstMatch(i, s) ==
  IF i > Len(categorical_mappings) THEN NoCall(PyNone)
  ELSE IF InCategory(categorical_mappings[i], s)
       THEN Return(PyInt(Lookup(categorical_mappings[i], s)))
       ELSE FirstMatch(i + 1, s)

convert_text(s) ==
  LET found == FirstMatch(1, s)
  IN  IF Returned(found) THEN found
      ELSE IF isnumeric(s) THEN int(s) ELSE Return(PyStr(s))

(***************************************************************************)
(* clean_input_data                                                        *)
(***************************************************************************)
\* Mutant of columns: "gender" and "age" change places.
columns_swapped ==
  << "gender", "age", "work_experience", "canada_workex", "dep_num",
     "canada_born", "citizen_status", "level_of_schooling", "fluent_english",
     "reading_english_scale", "speaking_english_scale", "writing_english_scale",
     "numeracy_scale", "computer_scale", "transportation_bool", "caregiver_bool",
     "housing", "income_source", "felony_bool", "attending_school",
     "currently_employed", "substance_use", "time_unemployed",
     "need_mental_health_support_bool" >>

columns ==
  << "age", "gender", "work_experience", "canada_workex", "dep_num",
     "canada_born", "citizen_status", "level_of_schooling", "fluent_english",
     "reading_english_scale", "speaking_english_scale", "writing_english_scale",
     "numeracy_scale", "computer_scale", "transportation_bool", "caregiver_bool",
     "housing", "income_source", "felony_bool", "attending_school",
     "currently_employed", "substance_use", "time_unemployed",
     "need_mental_health_support_bool" >>

\* The loop body: value = demographics.get(column); a str goes through
\* convert_text, anything else is appended as it is.
CleanValue(value) == IF IsStr(value) THEN convert_text(value.s) ELSE Return(value)

\* The loop over the first k columns: output = []; output.append(value) per
\* column; an exception of convert_text ends it.
RECURSIVE CleanLoop(_, _, _)
CleanLoop(cols, d, k) ==
  IF k = 0 THEN Return(<<>>)
  ELSE LET before == CleanLoop(cols, d, k - 1)
           value == CleanValue(d[cols[k]])
       IN  IF Raised(before) THEN before
           ELSE IF Raised(value) THEN Raise(value.exc, NoList)
           ELSE Return(Append(before.val, value.val))

\* Mutant of CleanWith: no dict comprehension, so that demographics.get(column,
\* None) puts None for a missing column.
RECURSIVE CleanWithDefault(_, _)
CleanWithDefault(cols, d) ==
  IF Len(cols) = 0 THEN Return(<<>>)
  ELSE LET k == Len(cols)
           before == CleanWithDefault(SubSeq(cols, 1, k - 1), d)
           value == IF cols[k] \in DOMAIN d THEN CleanValue(d[cols[k]]) ELSE Return(PyNone)
       IN  IF Raised(before) THEN before
           ELSE IF Raised(value) THEN Raise(value.exc, NoList)
           ELSE Return(Append(before.val, value.val))

\* clean_input_data over a given column list: the dict comprehension raises
\* KeyError on the first missing column; then the loop, one entry per
\* column, in column order.
CleanWith(cols, d) ==
  IF \E k \in 1..Len(cols) : cols[k] \notin DOMAIN d THEN Raise("KeyError", NoList)
  ELSE CleanLoop(cols, d, Len(cols))

clean_input_data(d) == CleanWith(columns, d)

(***************************************************************************)
(* The column layout the oracle is trained on (prepare_models)             *)
(***************************************************************************)
feature_columns ==
  << "age", "gender", "work_experience", "canada_workex", "dep_num",
     "canada_born", "citizen_status", "level_of_schooling", "fluent_english",
     "reading_english_scale", "speaking_english_scale", "writing_english_scale",
     "numeracy_scale", "computer_scale", "transportation_bool", "caregiver_bool",
     "housing", "income_source", "felony_bool", "attending_school",
     "currently_employed", "substance_use", "time_unemployed",
     "need_mental_health_support_bool" >>

intervention_columns ==
  << "employment_assistance", "life_stabilization", "retention_services",
     "specialized_services", "employment_related_financial_supports",
     "employer_financial_supports", "enhanced_referrals" >>

\* all_features = feature_columns + intervention_columns: position k of a row
\* given to the oracle is read as column all_features[k].
all_features == feature_columns \o intervention_columns

(***************************************************************************)
(* numpy arrays                                                            *)
(*                                                                         *)
(* An array has one dtype for all its entries: "int64", "float64" or "str" *)
(* (numpy's '<U').  data holds the entries, the rows of a 2-D array being  *)
(* lists: a number is an integer (the floats that occur are whole), a      *)
(* string is its characters.                                               *)
(***************************************************************************)
\* A list built from a function on 1..n, element by element.
List(f) == f \o <<>>

AsciiDigits == <<"0", "1", "2", "3", "4", "5", "6", "7", "8", "9">>

RECURSIVE NatRepr(_)
NatRepr(n) ==
  IF n < 10 THEN <<AsciiDigits[n + 1]>>
  ELSE Append(NatRepr(n \div 10), AsciiDigits[(n % 10) + 1])

\* str(n) of an int
IntRepr(n) == IF n < 0 THEN <<"-">> \o NatRepr(0 - n) ELSE NatRepr(n)

\* The string numpy makes of a whole float64: "9.0".
FloatRepr(x) == IntRepr(x) \o <<".", "0">>

\* The string numpy makes of a Python value put in an array of strings.
StrOf(value) ==
  IF IsStr(value) THEN value.s
  ELSE IF value.t = "bool"
       THEN (IF value.n = 1 THEN <<"T","r","u","e">> ELSE <<"F","a","l","s","e">>)
  ELSE IF value.t = "float" THEN FloatRepr(value.n)
  ELSE IntRepr(value.n)

\* np.array(values) of a list of Python values: an array of strings as soon
\* as one value is a str, of numbers otherwise.
np_array(values) ==
  IF \E k \in 1..Len(values) : IsStr(values[k])
  THEN [dtype |-> "str", data |-> List([k \in 1..Len(values) |-> StrOf(values[k])])]
  ELSE [ dtype |-> IF \E k \in 1..Len(values) : values[k].t = "float"
                   THEN "float64" ELSE "int64",
         data |-> List([k \in 1..Len(values) |-> NumOf(values[k])]) ]

\* np.zeros(n)
np_zeros(n) == [dtype |-> "float64", data |-> [i \in 1..n |-> 0]]

\* The dtype of a concatenation: strings win over numbers, floats over ints.
promote_types(a, b) ==
  IF "str" \in {a, b} THEN "str"
  ELSE IF "float64" \in {a, b} THEN "float64"
  ELSE "int64"

\* The entries `data` of dtype `from`, cast to dtype `to`.
Cast(data, from, to) ==
  IF from = to \/ to # "str" THEN data
  ELSE List([k \in 1..Len(data) |->
               IF from = "float64" THEN FloatRepr(data[k]) ELSE IntRepr(data[k])])

\* np.concatenate((a, b)) of two 1-D arrays
concatenate(a, b) ==
  LET dtype == promote_types(a.dtype, b.dtype)
  IN  [dtype |-> dtype, data |-> Cast(a.data, a.dtype, dtype) \o Cast(b.data, b.dtype, dtype)]

\* np.concatenate((a, b), axis=1) of two 2-D arrays with as many rows
concatenate_axis1(a, b) ==
  LET dtype == promote_types(a.dtype, b.dtype)
  IN  [ dtype |-> dtype,
        data |-> List([i \in 1..Len(a.data) |->
                         Cast(a.data[i], a.dtype, dtype) \o Cast(b.data[i], b.dtype, dtype)]) ]

\* The scalar at an entry x of an array of the given dtype: np.str_,
\* np.float64 or np.int64.
Item(x, dtype) ==
  IF dtype = "str" THEN PyStr(x)
  ELSE IF dtype = "float64" THEN PyFloat(x)
  ELSE PyInt(x)

\* float(s) for a str s, as far as the strings that occur go: surrounding
\* whitespace stripped, an optional sign, the digits, an optional ".0";
\* anything else raises ValueError.  (Fractions, exponents, "inf" and "nan"
\* do not occur.)
float(s) ==
  LET body == strip(s)
      signed == Len(body) > 0 /\ body[1] \in {"+", "-"}
      unsigned == IF signed THEN Tail(body) ELSE body
      whole == Len(unsigned) > 2 /\ SubSeq(unsigned, Len(unsigned) - 1, Len(unsigned)) = <<".", "0">>
      digits == IF whole THEN SubSeq(unsigned, 1, Len(unsigned) - 2) ELSE unsigned
  IN  IF IsDigitString(digits)
      THEN Return(PyFloat(IF signed /\ body[1] = "-"
                        THEN 0 - DigitsValue(digits) ELSE DigitsValue(digits)))
      ELSE Raise("ValueError", PyNone)

\* The code points of the characters of the reprs of numbers.
CodePoint(c) ==
  CASE c = "-" -> 45
    [] c = "." -> 46
    [] OTHER -> 48 + (CHOOSE d \in 0..9 : AsciiDigits[d + 1] = c)

\* a <= b for two strings: code point by code point, a prefix first.
RECURSIVE StrLeq(_, _)
StrLeq(a, b) ==
  IF Len(a) = 0 THEN TRUE
  ELSE IF Len(b) = 0 THEN FALSE
  ELSE IF a[1] = b[1] THEN StrLeq(Tail(a), Tail(b))
  ELSE CodePoint(a[1]) < CodePoint(b[1])

\* x <= y for two entries of an array of the given dtype
Leq(x, y, dtype) == IF dtype = "str" THEN StrLeq(x, y) ELSE x <= y

(***************************************************************************)
(* The intervention space                                                  *)
(***************************************************************************)
COLUMN_INTERVENTIONS ==
  << "Life Stabilization",
     "General Employment Assistance Services",
     "Retention Services",
     "Specialized Services",
     "Employment-Related Financial Supports for Job Seekers and Employers",
     "Employer Financial Supports",
     "Enhanced Referrals for Skills Development" >>

\* Mutant of Extend: every list is extended by the first element of the pool.
RECURSIVE ExtendSame(_, _, _)
ExtendSame(lists, pool, n) ==
  IF n = 0 THEN <<>>
  ELSE ExtendSame(lists, pool, n - 1)
         \o List([j \in 1..Len(pool) |-> Append(lists[n], pool[1])])

\* Mutant of Extend: the new element goes in front ([y] + x).
RECURSIVE ExtendFront(_, _, _)
ExtendFront(lists, pool, n) ==
  IF n = 0 THEN <<>>
  ELSE ExtendFront(lists, pool, n - 1)
         \o List([j \in 1..Len(pool) |-> <<pool[j]>> \o lists[n]])

\* [x + [y] for x in lists[:n] for y in pool]
RECURSIVE Extend(_, _, _)
Extend(lists, pool, n) ==
  IF n = 0 THEN <<>>
  ELSE Extend(lists, pool, n - 1)
         \o List([j \in 1..Len(pool) |-> Append(lists[n], pool[j])])

\* itertools.product(pool, repeat=n): result = [[]]; for each of the n pools,
\* result = [x + [y] for x in result for y in pool].
RECURSIVE product(_, _)
product(pool, repeat) ==
  IF repeat = 0 THEN << <<>> >>
  ELSE LET lists == product(pool, repeat - 1)
       IN  Extend(lists, pool, Len(lists))

\* np.array(list(product([0, 1], repeat=num)))
intervention_permutations(num) == [dtype |-> "int64", data |-> product(<<0, 1>>, num)]

NumInterventions == 7

NumCombinations == 128

\* perms = intervention_permutations(7), as create_matrix calls it.
perms == intervention_permutations(NumInterventions)

\* data = [row_data.copy() for _ in range(128)]; np.array(data) concatenated
\* with perms along axis 1 (numpy requires both to have the same number of
\* rows).
create_matrix(row_data) ==
  LET row == np_array(row_data)
      data == [dtype |-> row.dtype, data |-> [i \in 1..NumCombinations |-> row.data]]
  IN  concatenate_axis1(data, perms)

\* Mutant of get_baseline_row: the baseline row has every intervention set.
get_baseline_row_all_set(row_data) ==
  concatenate(np_array(row_data),
              [dtype |-> "float64", data |-> [i \in 1..NumInterventions |-> 1]])

\* base_interventions = np.zeros(7); concatenate((np.array(row_data), base_interventions))
get_baseline_row(row_data) == concatenate(np_array(row_data), np_zeros(NumInterventions))

\* Mutant of NamesFrom: the names of the flags that are not set (value == 0).
RECURSIVE NamesFromUnset(_, _)
NamesFromUnset(row_data, i) ==
  IF i > Len(row_data.data) THEN <<>>
  ELSE IF row_data.dtype # "str" /\ row_data.data[i] = 0
       THEN <<COLUMN_INTERVENTIONS[i]>> \o NamesFromUnset(row_data, i + 1)
       ELSE NamesFromUnset(row_data, i + 1)

\* [COLUMN_INTERVENTIONS[i] for i, value in enumerate(row_data) if value == 1]:
\* a number is compared by value (1.0 == 1), a string never equals 1.
RECURSIVE NamesFrom(_, _)
NamesFrom(row_data, i) ==
  IF i > Len(row_data.data) THEN <<>>
  ELSE IF row_data.dtype # "str" /\ row_data.data[i] = 1
       THEN <<COLUMN_INTERVENTIONS[i]>> \o NamesFrom(row_data, i + 1)
       ELSE NamesFrom(row_data, i + 1)

intervention_row_to_names(row_data) == NamesFrom(row_data, 1)

(***************************************************************************)
(* The oracle (MODEL.predict)                                              *)
(*                                                                         *)
(* MODEL is a regressor fitted on rows of len(all_features) numbers and    *)
(* is opaque to the engine.  It is modelled as a deterministic function of *)
(* the row: a weight per column plus a sum of one-split trees, each        *)
(* reading one column against a threshold.                                 *)
(***************************************************************************)
\* n_features_in_ of the fitted model: the width of the training rows.
NumFeatures == Len(all_features)

RECURSIVE Dot(_, _, _)
Dot(w, row, i) == IF i = 0 THEN 0 ELSE w[i] * row[i] + Dot(w, row, i - 1)

RECURSIVE Trees(_, _, _)
Trees(stumps, row, i) ==
  IF i = 0 THEN 0
  ELSE (IF row[stumps[i].col] <= stumps[i].thr THEN stumps[i].lo ELSE stumps[i].hi)
       + Trees(stumps, row, i - 1)

PredictRow(M, row) == Dot(M.w, row, Len(row)) + Trees(M.stumps, row, Len(M.stumps))

\* What val holds when predict gives no array.
NoArray == [dtype |-> "float64", data |-> <<>>]

\* The entries of an array of strings, each read by float().
ParseAll(data) ==
  List([i \in 1..Len(data) |-> List([k \in 1..Len(data[i]) |-> float(data[i][k])])])

\* The numbers read, or ValueError when an entry is no number.
Floats(parsed) ==
  IF \E i \in 1..Len(parsed) : \E k \in 1..Len(parsed[i]) : Raised(parsed[i][k])
  THEN Raise("ValueError", NoList)
  ELSE Return(List([i \in 1..Len(parsed) |->
                      List([k \in 1..Len(parsed[i]) |-> parsed[i][k].val.n])]))

\* The input validation of predict converts X to an array of floats: the
\* entries of an array of strings go through float(), which raises
\* ValueError on one that is no number.
astype_float(X) == IF X.dtype # "str" THEN Return(X.data) ELSE Floats(ParseAll(X.data))

\* One score per row of numbers, in row order; a row of the wrong length is
\* rejected.
PredictRows(M, rows) ==
  IF Raised(rows) THEN Raise(rows.exc, NoArray)
  ELSE IF \E i \in 1..Len(rows.val) : Len(rows.val[i]) # NumFeatures
  THEN Raise("ValueError", NoArray)
  ELSE Return([ dtype |-> "float64",
                data |-> List([i \in 1..Len(rows.val) |-> PredictRow(M, rows.val[i])]) ])

\* MODEL.predict(X): input validation, then the scores.
predict(M, X) == PredictRows(M, astype_float(X))

(***************************************************************************)
(* Ranking                                                                 *)
(***************************************************************************)
\* The positions, outside `excluded`, that hold the largest entry of the
\* 1-D array `scores`.
ArgMax(scores, excluded) ==
  LET rest == (1..Len(scores.data)) \ excluded
      values == { scores.data[i] : i \in rest }
      m == CHOOSE x \in values : \A y \in values : Leq(y, x, scores.dtype)
  IN  { i \in rest : scores.data[i] = m }

\* The positions, outside `excluded`, that hold the smallest entry.
ArgMin(scores, excluded) ==
  LET rest == (1..Len(scores.data)) \ excluded
      values == { scores.data[i] : i \in rest }
      m == CHOOSE x \in values : \A y \in values : Leq(x, y, scores.dtype)
  IN  { i \in rest : scores.data[i] = m }

\* Mutant of argsort_tail: the slice is taken from the front of the ascending
\* order ([:k]), the k lowest scores.
RECURSIVE argsort_head(_, _, _)
argsort_head(scores, k, excluded) ==
  IF k = 0 THEN { <<>> }
  ELSE UNION { { <<i>> \o t : t \in argsort_head(scores, k - 1, excluded \cup {i}) } :
               i \in ArgMin(scores, excluded) }

\* scores.argsort()[-k:] for numpy's default kind ("quicksort": an introsort,
\* or a SIMD sort where the CPU has one), which is not stable: the result is
\* a permutation that puts the entries in ascending order, and equal entries
\* come in an order the build decides.  The last k positions of such a
\* permutation: the last holds a largest entry, the one before it a largest
\* entry among the others, and so on.  The entries of an array of strings
\* are ordered as strings.
RECURSIVE argsort_tail(_, _, _)
argsort_tail(scores, k, excluded) ==
  IF k = 0 THEN { <<>> }
  ELSE UNION { { Append(t, i) : t \in argsort_tail(scores, k - 1, excluded \cup {i}) } :
               i \in ArgMax(scores, excluded) }

TopK == 3

\* result_list = [(row[-1], intervention_row_to_names(row[:-1])) for row in
\* results_matrix]; {"baseline": baseline_pred[-1], "interventions": result_list}
process_results(baseline_pred, results_matrix) ==
  [ baseline |-> Item(baseline_pred.data[Len(baseline_pred.data)], baseline_pred.dtype),
    interventions |->
      List([j \in 1..Len(results_matrix.data) |->
              LET row == results_matrix.data[j]
              IN  << Item(row[Len(row)], results_matrix.dtype),
                     intervention_row_to_names(
                       [ dtype |-> results_matrix.dtype,
                         data |-> SubSeq(row, 1, Len(row) - 1) ]) >>]) ]

\* row[-8:] of a row of the result matrix
LastEight(row) == SubSeq(row, Len(row) - 7, Len(row))

\* a.reshape(1, -1) of a 1-D array
reshape_row(a) == [dtype |-> a.dtype, data |-> <<a.data>>]

\* a.reshape(-1, 1) of a 1-D array
reshape_column(a) == [dtype |-> a.dtype, data |-> List([i \in 1..Len(a.data) |-> <<a.data[i]>>])]

\* a[:, -1] of a 2-D array
LastColumn(a) ==
  [dtype |-> a.dtype, data |-> List([i \in 1..Len(a.data) |-> a.data[i][Len(a.data[i])]])]

\* a[order][:, -8:] for the last positions `order` of the sort order
TopResults(a, order) ==
  [dtype |-> a.dtype, data |-> List([j \in 1..Len(order) |-> LastEight(a.data[order[j]])])]

\* result_order = result_matrix[:, -1].argsort(); the last three rows of
\* the sorted matrix, cut to the flags and the score, go to process_results.
\* One outcome for each order the sort may give.
Ranked(baseline_pred, result_matrix) ==
  { [ order |-> result_order, predicts |-> 2,
      outcome |-> Return(process_results(baseline_pred,
                                         TopResults(result_matrix, result_order))) ] :
    result_order \in argsort_tail(LastColumn(result_matrix), TopK, {}) }

\* Mutant of Scored: an exception of MODEL.predict is caught and a baseline
\* of 0 with an empty list returned.
ScoredDefault(baseline_prediction, intervention_rows, intervention_predictions) ==
  IF Raised(baseline_prediction) \/ Raised(intervention_predictions)
  THEN { [ order |-> <<>>, predicts |-> 1,
           outcome |-> Return([baseline |-> PyFloat(0), interventions |-> <<>>]) ] }
  ELSE Ranked(baseline_prediction.val,
              concatenate_axis1(intervention_rows,
                                reshape_column(intervention_predictions.val)))

\* An exception of MODEL.predict propagates; otherwise the scores are put
\* beside the rows and ranked.  predicts counts the calls of MODEL.predict
\* made: an exception of the first call ends the function before the second.
Scored(baseline_prediction, intervention_rows, intervention_predictions) ==
  IF Raised(baseline_prediction)
  THEN { [ order |-> <<>>, predicts |-> 1,
           outcome |-> Raise(baseline_prediction.exc, NoRecommendation) ] }
  ELSE IF Raised(intervention_predictions)
  THEN { [ order |-> <<>>, predicts |-> 2,
           outcome |-> Raise(intervention_predictions.exc, NoRecommendation) ] }
  ELSE Ranked(baseline_prediction.val,
              concatenate_axis1(intervention_rows,
                                reshape_column(intervention_predictions.val)))

\* The baseline row and the candidate rows of the encoded fields, scored.
Encoded(M, baseline_row, intervention_rows) ==
  Scored(predict(M, baseline_row), intervention_rows, predict(M, intervention_rows))

\* An exception of clean_input_data propagates, before any call of
\* MODEL.predict.
Cleaned(M, raw_data) ==
  IF Raised(raw_data)
  THEN { [order |-> <<>>, predicts |-> 0, outcome |-> Raise(raw_data.exc, NoRecommendation)] }
  ELSE Encoded(M, reshape_row(get_baseline_row(raw_data.val)), create_matrix(raw_data.val))

\* The outcomes of interpret_and_calculate(input_data) with oracle M, each
\* with the result_order[-3:] that led to it.
interpret_and_calculate(M, d) == Cleaned(M, clean_input_data(d))

(***************************************************************************)
(* Inputs                                                                  *)
(***************************************************************************)
\* The bounds of the inputs drawn.
MaxLen == 2

MaxWeight == 1

\* test_data of logic.py: every field a string of decimal digits.
test_data ==
  [ age |-> PyStr(<<"2","3">>), gender |-> PyStr(<<"1">>),
    work_experience |-> PyStr(<<"1">>), canada_workex |-> PyStr(<<"1">>),
    dep_num |-> PyStr(<<"0">>), canada_born |-> PyStr(<<"1">>),
    citizen_status |-> PyStr(<<"2">>), level_of_schooling |-> PyStr(<<"2">>),
    fluent_english |-> PyStr(<<"3">>), reading_english_scale |-> PyStr(<<"2">>),
    speaking_english_scale |-> PyStr(<<"2">>),
    writing_english_scale |-> PyStr(<<"3">>),
    numeracy_scale |-> PyStr(<<"2">>), computer_scale |-> PyStr(<<"3">>),
    transportation_bool |-> PyStr(<<"2">>), caregiver_bool |-> PyStr(<<"1">>),
    housing |-> PyStr(<<"1">>), income_source |-> PyStr(<<"5">>),
    felony_bool |-> PyStr(<<"1">>), attending_school |-> PyStr(<<"0">>),
    currently_employed |-> PyStr(<<"1">>), substance_use |-> PyStr(<<"1">>),
    time_unemployed |-> PyStr(<<"1">>),
    need_mental_health_support_bool |-> PyStr(<<"1">>) ]

\* d with the fields of `over` set or added.
With(d, over) ==
  [k \in DOMAIN d \cup DOMAIN over |-> IF k \in DOMAIN over THEN over[k] ELSE d[k]]

\* d without the field k.
Without(d, k) == [j \in DOMAIN d \ {k} |-> d[j]]

Homeowner == <<"H","o","m","e","o","w","n","e","r">>

Grade12 ==
  <<"G","r","a","d","e"," ","1","2"," ","o","r"," ","e","q","u","i","v","a","l","e","n","t">>

Castle == <<"C","a","s","t","l","e">>

\* The characters the strings of the text inputs are made of.
TextAlphabet == {"0", "1", "7", "-", " ", "_", "x", "U+00B2", "U+0663"}

RECURSIVE StringsOfLen(_)
StringsOfLen(n) ==
  IF n = 0 THEN { <<>> }
  ELSE { Append(s, c) : s \in StringsOfLen(n - 1), c \in TextAlphabet }

Strings == UNION { StringsOfLen(n) : n \in 0..MaxLen }

LexiconKeys ==
  UNION { { e.key : e \in categorical_mappings[i] } : i \in 1..Len(categorical_mappings) }

Texts == LexiconKeys \cup Strings \cup {Castle}

\* Field values of the encoder inputs: a native int, a native bool, a label
\* of a lexicon, and text that resolves to nothing.
EncValues(n, label) == { PyInt(n), PyBool(TRUE), PyStr(label), PyStr(Castle) }

Employment == <<"E","m","p","l","o","y","m","e","n","t">>

\* The attribute records given to clean_input_data: three fields over the
\* values above, every label of the lexicons in one field, a field beyond
\* the 24, numeric characters that are no decimal digits, a missing field.
EncInputs ==
  { With(test_data, [level_of_schooling |-> a, housing |-> b, income_source |-> c]) :
      a \in EncValues(14, Grade12), b \in EncValues(4, Homeowner),
      c \in EncValues(8, Employment) }
  \cup { With(test_data, [housing |-> PyStr(key)]) : key \in LexiconKeys }
  \cup { With(test_data, [housing |-> b, notes |-> c]) :
           b \in {PyStr(Homeowner), PyInt(4)}, c \in {PyStr(Castle), PyInt(9)} }
  \cup { With(test_data, [housing |-> PyStr(<<"U+00B2">>)]),
         With(test_data, [housing |-> PyStr(<<"-", "7">>)]),
         Without(test_data, "housing") }

\* The oracles drawn.  Per family, the weights of the first two intervention
\* columns range over 0..MaxWeight.
\*   1: the score is the sum of the row (the weights are all 1 when a = b = 1);
\*   2: distinct weights on the other five flags, the age column counted, and
\*      a tree that takes 20 off when flag 3 is set;
\*   3: every other flag lowers the score, and a tree on the housing column;
\*   4: the age column counted and the flags weighted 32, 16, 8, 4, 2, a, b
\*      (position 1 first): no two candidates tie unless a = b or b = 0.
ZeroFeatures == [k \in 1..24 |-> 0]

Oracle(family, a, b) ==
  CASE family = 1 ->
         [ w |-> [k \in 1..24 |-> 1] \o <<a, b, 1, 1, 1, 1, 1>>, stumps |-> <<>> ]
    [] family = 2 ->
         [ w |-> [k \in 1..24 |-> IF k = 1 THEN 1 ELSE 0] \o <<a, b, 16, 8, 4, 2, 1>>,
           stumps |-> << [col |-> 27, thr |-> 0, lo |-> 0, hi |-> 0 - 20] >> ]
    [] family = 3 ->
         [ w |-> ZeroFeatures \o <<a, b, 0 - 1, 0 - 2, 0 - 4, 0 - 8, 0 - 16>>,
           stumps |-> << [col |-> 17, thr |-> 3, lo |-> 40, hi |-> 50] >> ]
    [] family = 4 ->
         [ w |-> [k \in 1..24 |-> IF k = 1 THEN 1 ELSE 0] \o <<32, 16, 8, 4, 2, a, b>>,
           stumps |-> <<>> ]

Oracles ==
  { Oracle(family, a, b) :
      family \in 1..3, a \in 0..MaxWeight, b \in 0..MaxWeight }

\* The attribute records given to interpret_and_calculate: test_data; native
\* numbers, a label and a field beyond the 24; text that resolves to nothing
\* and is no number; a numeric character that is no decimal digit; text that
\* resolves to nothing and that float() reads as a number, with and without
\* a native bool beside it; a missing field after a field that does not
\* convert; each of the 24 fields missing.
Inputs ==
  { test_data,
    With(test_data, [age |-> PyInt(18), housing |-> PyStr(Homeowner),
                     canada_born |-> PyBool(TRUE), notes |-> PyStr(Castle)]),
    With(test_data, [housing |-> PyStr(Castle)]),
    With(test_data, [housing |-> PyStr(<<"U+00B2">>)]),
    With(test_data, [housing |-> PyStr(<<"-", "7">>)]),
    With(test_data, [housing |-> PyStr(<<"-", "7">>), canada_born |-> PyBool(TRUE)]),
    Without(With(test_data, [housing |-> PyStr(<<"U+00B2">>)]), "time_unemployed") }
  \cup { Without(test_data, columns[k]) : k \in 1..Len(columns) }

\* No call made yet: no argument.
NoInput == [k \in {} |-> PyNone]

\* The oracles and the attribute records of the repeated calls: an oracle
\* under which two candidates tie for the second place, one under which no
\* two candidates tie, and records that
\* encode to numbers, that hold text float() reads, text it does not read,
\* and a record with a field missing.
CallOracles == { Oracle(4, 1, 1), Oracle(4, 2, 1) }

CallInputs ==
  { test_data,
    With(test_data, [age |-> PyInt(18), housing |-> PyStr(Homeowner),
                     canada_born |-> PyBool(TRUE), notes |-> PyStr(Castle)]),
    With(test_data, [housing |-> PyStr(Castle)]),
    With(test_data, [housing |-> PyStr(<<"-", "7">>)]),
    Without(test_data, "age") }

\* The arguments given to intervention_permutations: the 7 of create_matrix
\* and the number below it.
MaxNum == 7

Nums == (MaxNum - 1)..MaxNum

\* The rows given to intervention_row_to_names: every vector of 7 flags, as
\* a row of whole numbers and as a row of floats (a row of the result matrix).
FlagRows ==
  { [dtype |-> dtype, data |-> data] :
      dtype \in {"int64", "float64"}, data \in [1..NumInterventions -> {0, 1}] }

\* The calls that run concurrently (threads of one process, which share the
\* module's globals), the oracle loaded, under which two candidates tie for
\* the second place, and the arguments of the calls: two records that
\* encode to numbers, one that holds text float() does not read and one
\* with a field missing.
NumCalls == 2

Calls == 1..NumCalls

ConcOracle == Oracle(4, 1, 1)

ConcInputs ==
  { test_data,
    With(test_data, [age |-> PyInt(18), housing |-> PyStr(Homeowner),
                     canada_born |-> PyBool(TRUE), notes |-> PyStr(Castle)]),
    With(test_data, [housing |-> PyStr(Castle)]),
    Without(test_data, "age") }

(***************************************************************************)
(* The database (app/models.py) and ClientService                          *)
(*                                                                         *)
(* A table is the list of its rows, a row a record of its columns.  The    *)
(* ids are numbers; the other columns hold Python values, None being SQL   *)
(* NULL.  A database is the three tables.  A call of ClientService gives   *)
(* the database it leaves and the status of the HTTPException it raises,   *)
(* or no status when it returns.                                           *)
(***************************************************************************)
HTTP_200_OK == 200

HTTP_204_NO_CONTENT == 204

HTTP_400_BAD_REQUEST == 400

HTTP_404_NOT_FOUND == 404

HTTP_500_INTERNAL_SERVER_ERROR == 500

\* The function returned: no HTTPException.
NoException == 0

\* No value returned: the function raised, or returned None.
NoValue == <<>>

\* db.query(Client).filter(Client.id == client_id): .first() is its first
\* row, or None when it is empty
ClientsById(db, client_id) == SelectSeq(db.clients, LAMBDA c : c.id = client_id)

\* Mutant of UsersById: the query is not filtered, every user is found.
UsersByIdAll(db, user_id) == db.users

\* db.query(User).filter(User.id == user_id)
UsersById(db, user_id) == SelectSeq(db.users, LAMBDA u : u.id = user_id)

\* Mutant of CasesOf: the query finds no case.
CasesOfNone(db, client_id, user_id) == <<>>

\* db.query(ClientCase).filter(ClientCase.client_id == client_id,
\*                             ClientCase.user_id == user_id)
CasesOf(db, client_id, user_id) ==
  SelectSeq(db.client_cases, LAMBDA c : c.client_id = client_id /\ c.user_id = user_id)

\* CHECK (column >= lo AND column <= hi): a NULL passes a CHECK constraint
InRange(value, lo, hi) == value = PyNone \/ (value.n >= lo /\ value.n <= hi)

\* CHECK (column >= lo)
AtLeast(value, lo) == value = PyNone \/ value.n >= lo

\* The CHECK constraints of table clients.
ClientChecks(c) ==
  /\ AtLeast(c.age, 18)
  /\ InRange(c.gender, 1, 2)
  /\ AtLeast(c.work_experience, 0)
  /\ AtLeast(c.canada_workex, 0)
  /\ AtLeast(c.dep_num, 0)
  /\ InRange(c.level_of_schooling, 1, 14)
  /\ InRange(c.reading_english_scale, 0, 10)
  /\ InRange(c.speaking_english_scale, 0, 10)
  /\ InRange(c.writing_english_scale, 0, 10)
  /\ InRange(c.numeracy_scale, 0, 10)
  /\ InRange(c.computer_scale, 0, 10)
  /\ InRange(c.housing, 1, 10)
  /\ InRange(c.income_source, 1, 11)
  /\ AtLeast(c.time_unemployed, 0)

\* The CHECK constraint of table client_cases.
CaseChecks(c) == InRange(c.success_rate, 0, 100)

\* The primary keys: no two clients with one id, no two cases with one
\* (client_id, user_id).
PrimaryKeys(db) ==
  /\ \A i, j \in 1..Len(db.clients) : db.clients[i].id = db.clients[j].id => i = j
  /\ \A i, j \in 1..Len(db.client_cases) :
       (/\ db.client_cases[i].client_id = db.client_cases[j].client_id
        /\ db.client_cases[i].user_id = db.client_cases[j].user_id) => i = j

\* The database accepts the rows: db.commit() raises IntegrityError otherwise.
Accepts(db) ==
  /\ PrimaryKeys(db)
  /\ \A i \in 1..Len(db.clients) : ClientChecks(db.clients[i])
  /\ \A i \in 1..Len(db.client_cases) : CaseChecks(db.client_cases[i])

\* try: db.commit() ... except Exception: db.rollback(); raise
\* HTTPException(500): the database pending, or the one before the call.
commit(db, pending) ==
  IF Accepts(pending)
  THEN [db |-> pending, exc |-> NoException, val |-> NoValue]
  ELSE [db |-> db, exc |-> HTTP_500_INTERNAL_SERVER_ERROR, val |-> NoValue]

\* raise HTTPException(status_code): nothing was changed yet
raise(db, status_code) == [db |-> db, exc |-> status_code, val |-> NoValue]

\* return value, of a call that changes nothing
return(db, value) == [db |-> db, exc |-> NoException, val |-> value]

\* db.refresh(client); return client, after a commit that ended as r: the
\* row of the client as the database holds it
refreshed_client(r, client_id) ==
  IF r.exc = NoException THEN [r EXCEPT !.val = ClientsById(r.db, client_id)[1]] ELSE r

\* db.refresh(client_case); return client_case
refreshed_case(r, client_id, user_id) ==
  IF r.exc = NoException THEN [r EXCEPT !.val = CasesOf(r.db, client_id, user_id)[1]] ELSE r

\* Mutant of setattrs: update_data is the whole update (dict() without
\* exclude_unset), so the columns not supplied are set to None.
setattrs_unset(row, update_data) ==
  [field \in DOMAIN row |->
     IF field \in DOMAIN update_data THEN update_data[field]
     ELSE IF field \in {"id", "client_id", "user_id"} THEN row[field]
     ELSE PyNone]

\* for field, value in update_data.items(): setattr(row, field, value) with
\* update_data the fields set in the update (dict(exclude_unset=True))
setattrs(row, update_data) ==
  [field \in DOMAIN row |->
     IF field \in DOMAIN update_data THEN update_data[field] ELSE row[field]]

\* .first() of a query that found the rows at `positions`, updated: the
\* rows with the first of these replaced by its update.
UpdateFirst(rows, positions, update_data) ==
  LET first == CHOOSE i \in positions : \A j \in positions : i <= j
  IN  [rows EXCEPT ![first] = setattrs(rows[first], update_data)]

\* ClientCase(client_id=client_id, user_id=case_worker_id, every service
\* False, success_rate=0)
new_case(client_id, case_worker_id) ==
  [ client_id |-> client_id, user_id |-> case_worker_id,
    employment_assistance |-> PyBool(FALSE),
    life_stabilization |-> PyBool(FALSE),
    retention_services |-> PyBool(FALSE),
    specialized_services |-> PyBool(FALSE),
    employment_related_financial_supports |-> PyBool(FALSE),
    employer_financial_supports |-> PyBool(FALSE),
    enhanced_referrals |-> PyBool(FALSE),
    success_rate |-> PyInt(0) ]

\* The smaller of two numbers.
Min(a, b) == IF a <= b THEN a ELSE b

\* query.offset(skip).limit(limit).all(): the rows after the first `skip`,
\* `limit` of them at most.  Without ORDER BY SQLite gives the rows of a
\* table in rowid order, the order of the list.
OffsetLimit(rows, skip, limit) ==
  SubSeq(rows, skip + 1, Min(skip + limit, Len(rows)))

\* Mutant of get_clients: total is the number of clients of the page.
get_clients_page_total(db, skip, limit) ==
  IF skip < 0 THEN raise(db, HTTP_400_BAD_REQUEST)
  ELSE IF limit < 1 THEN raise(db, HTTP_400_BAD_REQUEST)
  ELSE return(db, [ clients |-> OffsetLimit(db.clients, skip, limit),
                    total |-> Len(OffsetLimit(db.clients, skip, limit)) ])

get_clients(db, skip, limit) ==
  IF skip < 0 THEN raise(db, HTTP_400_BAD_REQUEST)
  ELSE IF limit < 1 THEN raise(db, HTTP_400_BAD_REQUEST)
  ELSE return(db, [ clients |-> OffsetLimit(db.clients, skip, limit),
                    total |-> Len(db.clients) ])

\* ClientCase.success_rate >= min_rate in SQL: not true of NULL.
RateAtLeast(value, min_rate) == value # PyNone /\ value.n >= min_rate

\* query(Client).join(ClientCase).filter(...).all(): the clients with a case
\* the filter keeps.  A query for one entity gives each object once.
JoinedClients(db, positions) ==
  SelectSeq(db.clients,
            LAMBDA c : \E i \in positions : db.client_cases[i].client_id = c.id)

\* Mutant of get_clients_by_success_rate: the bound is exclusive.
get_clients_by_success_rate_above(db, min_rate) ==
  IF ~(0 <= min_rate /\ min_rate <= 100) THEN raise(db, HTTP_400_BAD_REQUEST)
  ELSE return(db, JoinedClients(db,
         { i \in 1..Len(db.client_cases) :
             RateAtLeast(db.client_cases[i].success_rate, min_rate + 1) }))

get_clients_by_success_rate(db, min_rate) ==
  IF ~(0 <= min_rate /\ min_rate <= 100) THEN raise(db, HTTP_400_BAD_REQUEST)
  ELSE return(db, JoinedClients(db,
         { i \in 1..Len(db.client_cases) :
             RateAtLeast(db.client_cases[i].success_rate, min_rate) }))

\* Mutant of get_client: the first client of the table is returned.
get_client_any(db, client_id) ==
  IF ClientsById(db, client_id) = <<>>
  THEN raise(db, HTTP_404_NOT_FOUND)
  ELSE return(db, db.clients[1])

get_client(db, client_id) ==
  IF ClientsById(db, client_id) = <<>>
  THEN raise(db, HTTP_404_NOT_FOUND)
  ELSE return(db, ClientsById(db, client_id)[1])

update_client(db, client_id, client_update) ==
  IF ClientsById(db, client_id) = <<>>
  THEN raise(db, HTTP_404_NOT_FOUND)
  ELSE refreshed_client(
         commit(db, [db EXCEPT !.clients =
                       UpdateFirst(db.clients,
                                   { i \in 1..Len(db.clients) : db.clients[i].id = client_id },
                                   client_update)]),
         client_id)

\* Mutant of update_client_services: a case that is not found is created
\* with the update applied.
update_client_services_upsert(db, client_id, user_id, service_update) ==
  IF CasesOf(db, client_id, user_id) = <<>>
  THEN refreshed_case(
         commit(db, [db EXCEPT !.client_cases =
                       Append(db.client_cases,
                              setattrs(new_case(client_id, user_id), service_update))]),
         client_id, user_id)
  ELSE refreshed_case(
         commit(db, [db EXCEPT !.client_cases =
                       UpdateFirst(db.client_cases,
                                   { i \in 1..Len(db.client_cases) :
                                       /\ db.client_cases[i].client_id = client_id
                                       /\ db.client_cases[i].user_id = user_id },
                                   service_update)]),
         client_id, user_id)

update_client_services(db, client_id, user_id, service_update) ==
  IF CasesOf(db, client_id, user_id) = <<>>
  THEN raise(db, HTTP_404_NOT_FOUND)
  ELSE refreshed_case(
         commit(db, [db EXCEPT !.client_cases =
                       UpdateFirst(db.client_cases,
                                   { i \in 1..Len(db.client_cases) :
                                       /\ db.client_cases[i].client_id = client_id
                                       /\ db.client_cases[i].user_id = user_id },
                                   service_update)]),
         client_id, user_id)

create_case_assignment(db, client_id, case_worker_id) ==
  IF ClientsById(db, client_id) = <<>>
  THEN raise(db, HTTP_404_NOT_FOUND)
  ELSE IF UsersById(db, case_worker_id) = <<>>
  THEN raise(db, HTTP_404_NOT_FOUND)
  ELSE IF CasesOf(db, client_id, case_worker_id) # <<>>
  THEN raise(db, HTTP_400_BAD_REQUEST)
  ELSE refreshed_case(
         commit(db, [db EXCEPT !.client_cases =
                       Append(db.client_cases, new_case(client_id, case_worker_id))]),
         client_id, case_worker_id)

\* db.query(ClientCase).filter(ClientCase.client_id == client_id).delete()
DeleteCases(db, client_id) ==
  [db EXCEPT !.client_cases = SelectSeq(db.client_cases, LAMBDA c : c.client_id # client_id)]

\* db.delete(client), flushed by db.commit(): the relationship Client.cases
\* has no delete cascade, so the unit of work sets client_id of the cases
\* the client still has to NULL, which is refused for a primary key column
\* (AssertionError) and ends in the except clause.
DeleteClient(db, pending, client_id) ==
  IF \E i \in 1..Len(pending.client_cases) : pending.client_cases[i].client_id = client_id
  THEN raise(db, HTTP_500_INTERNAL_SERVER_ERROR)
  ELSE commit(db, [pending EXCEPT !.clients =
                     SelectSeq(pending.clients, LAMBDA c : c.id # client_id)])

\* Mutant of delete_client: the row of the client is deleted and its cases
\* are left in the table.
delete_client_only(db, client_id) ==
  IF ClientsById(db, client_id) = <<>>
  THEN raise(db, HTTP_404_NOT_FOUND)
  ELSE commit(db, [db EXCEPT !.clients = SelectSeq(db.clients, LAMBDA c : c.id # client_id)])

delete_client(db, client_id) ==
  IF ClientsById(db, client_id) = <<>>
  THEN raise(db, HTTP_404_NOT_FOUND)
  ELSE DeleteClient(db, DeleteCases(db, client_id), client_id)

\* The rows of tests/conftest.py (test_db): two users, two clients, and a
\* case for client 1 with user 1 and for client 2 with user 2.
admin_user == [id |-> 1, username |-> "testadmin", role |-> "admin"]

case_worker == [id |-> 2, username |-> "testworker", role |-> "case_worker"]

client1 ==
  [ id |-> 1, age |-> PyInt(25), gender |-> PyInt(1), work_experience |-> PyInt(3),
    canada_workex |-> PyInt(2), dep_num |-> PyInt(1), canada_born |-> PyBool(TRUE),
    citizen_status |-> PyBool(TRUE), level_of_schooling |-> PyInt(8),
    fluent_english |-> PyBool(TRUE), reading_english_scale |-> PyInt(8),
    speaking_english_scale |-> PyInt(7), writing_english_scale |-> PyInt(7),
    numeracy_scale |-> PyInt(8), computer_scale |-> PyInt(9),
    transportation_bool |-> PyBool(TRUE), caregiver_bool |-> PyBool(FALSE),
    housing |-> PyInt(5), income_source |-> PyInt(3), felony_bool |-> PyBool(FALSE),
    attending_school |-> PyBool(FALSE), currently_employed |-> PyBool(FALSE),
    substance_use |-> PyBool(FALSE), time_unemployed |-> PyInt(6),
    need_mental_health_support_bool |-> PyBool(FALSE) ]

client2 ==
  [ id |-> 2, age |-> PyInt(30), gender |-> PyInt(2), work_experience |-> PyInt(5),
    canada_workex |-> PyInt(3), dep_num |-> PyInt(2), canada_born |-> PyBool(FALSE),
    citizen_status |-> PyBool(TRUE), level_of_schooling |-> PyInt(10),
    fluent_english |-> PyBool(TRUE), reading_english_scale |-> PyInt(9),
    speaking_english_scale |-> PyInt(8), writing_english_scale |-> PyInt(8),
    numeracy_scale |-> PyInt(7), computer_scale |-> PyInt(8),
    transportation_bool |-> PyBool(TRUE), caregiver_bool |-> PyBool(TRUE),
    housing |-> PyInt(4), income_source |-> PyInt(2), felony_bool |-> PyBool(FALSE),
    attending_school |-> PyBool(TRUE), currently_employed |-> PyBool(TRUE),
    substance_use |-> PyBool(FALSE), time_unemployed |-> PyInt(0),
    need_mental_health_support_bool |-> PyBool(FALSE) ]

client_case1 ==
  [ client_id |-> 1, user_id |-> 1,
    employment_assistance |-> PyBool(TRUE),
    life_stabilization |-> PyBool(TRUE),
    retention_services |-> PyBool(FALSE),
    specialized_services |-> PyBool(FALSE),
    employment_related_financial_supports |-> PyBool(TRUE),
    employer_financial_supports |-> PyBool(FALSE),
    enhanced_referrals |-> PyBool(TRUE),
    success_rate |-> PyInt(75) ]

client_case2 ==
  [ client_id |-> 2, user_id |-> 2,
    employment_assistance |-> PyBool(TRUE),
    life_stabilization |-> PyBool(FALSE),
    retention_services |-> PyBool(TRUE),
    specialized_services |-> PyBool(TRUE),
    employment_related_financial_supports |-> PyBool(FALSE),
    employer_financial_supports |-> PyBool(TRUE),
    enhanced_referrals |-> PyBool(FALSE),
    success_rate |-> PyInt(85) ]

test_db ==
  [ clients |-> <<client1, client2>>,
    users |-> <<admin_user, case_worker>>,
    client_cases |-> <<client_case1, client_case2>> ]

\* The tables after Base.metadata.create_all: no rows.
NoRows == [clients |-> <<>>, users |-> <<>>, client_cases |-> <<>>]

\* The ids the calls are given: those of the rows of test_db and one more,
\* which no client and no user has.
MaxId == 3

Ids == 1..MaxId

\* The pages asked of get_clients: skip from -1 to MaxSkip, limit from 0 to
\* MaxLimit, which is beyond the clients stored.
MaxSkip == 3

MaxLimit == 3

Skips == (0 - 1)..MaxSkip

Limits == 0..MaxLimit

(***************************************************************************)
(* initialize_database (initialize_data.py)                                *)
(***************************************************************************)
\* db.query(User).filter(User.username == username)
UsersByName(db, username) == SelectSeq(db.users, LAMBDA u : u.username = username)

\* User(username=..., role=...), its id given by the table.  The e-mail and
\* the hashed password play no part in what follows.
new_user(db, username, role) ==
  [id |-> Len(db.users) + 1, username |-> username, role |-> role]

\* Lines 12-24 and 27-39: the user is added and committed if no user has the
\* name.
create_if_missing(db, username, role) ==
  IF UsersByName(db, username) = <<>>
  THEN commit(db, [db EXCEPT !.users = Append(@, new_user(db, username, role))]).db
  ELSE db

\* The local name admin_user after line 24: bound to the user made at line 14
\* when no admin was found, and not bound at all otherwise.
Unbound == <<>>

admin_user_after(db) ==
  IF UsersByName(db, "admin") = <<>> THEN <<new_user(db, "admin", "admin")>> ELSE Unbound

\* What the run printed last.
Completed == "Database initialization completed successfully!"

ErrorDuring == "Error during initialization"

\* Client(...) of a row of the CSV file, its id given by the table.
client_of(db, row) == [row.client EXCEPT !.id = Len(db.clients) + 1]

\* ClientCase(client_id=client.id, user_id=admin_user.id, ...) of a row.
client_case_of(row, client, user) ==
  [row.client_case EXCEPT !.client_id = client.id, !.user_id = user.id]

\* Lines 84-85: db.add(client); db.commit().
committed_client(db, row) ==
  commit(db, [db EXCEPT !.clients = Append(@, client_of(db, row))])

\* Lines 88-101 for the client committed last: evaluating admin_user.id
\* raises when the name is not bound; otherwise the case is added and
\* committed.
committed_case(db, row, local_admin_user) ==
  IF local_admin_user = Unbound THEN raise(db, HTTP_500_INTERNAL_SERVER_ERROR)
  ELSE commit(db, [db EXCEPT !.client_cases =
                     Append(@, client_case_of(row, db.clients[Len(db.clients)],
                                              local_admin_user[1]))])

\* Lines 56-109: for each row the client is committed, then its case; an
\* exception ends the loop, is printed and rolls back what was not committed.
RECURSIVE load_rows(_, _, _)
load_rows(db, rows, local_admin_user) ==
  IF rows = <<>> THEN return(db, Completed)
  ELSE IF committed_client(db, Head(rows)).exc # NoException
       THEN return(db, ErrorDuring)
  ELSE IF committed_case(committed_client(db, Head(rows)).db, Head(rows),
                         local_admin_user).exc # NoException
       THEN return(committed_client(db, Head(rows)).db, ErrorDuring)
  ELSE load_rows(committed_case(committed_client(db, Head(rows)).db, Head(rows),
                                local_admin_user).db,
                 Tail(rows), local_admin_user)

initialize_database(db, df) ==
  load_rows(create_if_missing(create_if_missing(db, "admin", "admin"),
                              "case_worker1", "case_worker"),
            df, admin_user_after(db))

\* Rows of the CSV file: two that the tables accept and one of a client
\* aged 17, which CHECK (age >= 18) refuses.
csv_row1 == [client |-> client1, client_case |-> client_case1]

csv_row2 == [client |-> client2, client_case |-> client_case2]

csv_row3 == [client |-> [client1 EXCEPT !.age = PyInt(17)], client_case |-> client_case1]

\* The files read: MaxRows rows at most; the runs stop adding once the table
\* could pass MaxClients clients.
MaxRows == 2

MaxClients == 4

DataFrames ==
  UNION { [1..n -> {csv_row1, csv_row2, csv_row3}] : n \in 0..MaxRows }

\* Two more clients, stored without a case.
client3 == [client2 EXCEPT !.id = 3]

client4 == [client1 EXCEPT !.id = 4]

\* A case of the fourth client whose success_rate was set to null.
client_case4 == [new_case(4, 1) EXCEPT !.success_rate = PyNone]

\* The rates asked of get_clients_by_success_rate: the ends of 0..100, the
\* numbers next to them, and the rate of a stored case with its successor.
MinRates == {0 - 1, 0, 1, 75, 76, 100, 101}

\* The updates the calls are given, each of which passes its schema
\* (ClientUpdate, ServiceUpdate): that of test_update_client, and one of a
\* service and the rate.
NoUpdate == [field \in {} |-> PyNone]

ClientUpdates ==
  { [age |-> PyInt(26), currently_employed |-> PyBool(TRUE), time_unemployed |-> PyInt(0)] }

ServiceUpdates ==
  { [life_stabilization |-> PyBool(TRUE), success_rate |-> PyInt(80)] }

\* Updates that pass their schema with a field given as null: every field of
\* ClientUpdate and of ServiceUpdate is Optional, and ge and le are asked of
\* numbers only.
NullClientUpdates == { [age |-> PyNone, housing |-> PyInt(10)] }

NullServiceUpdates == { [enhanced_referrals |-> PyBool(TRUE), success_rate |-> PyNone] }

(***************************************************************************)
(* Specifications                                                          *)
(***************************************************************************)
IdleText == text_data = <<>> /\ text_out = NoCall(PyNone)

IdleEnc == output = NoCall(NoList)

IdleRank == top_order = <<>> /\ result = NoCall(NoRecommendation) /\ oracle_calls = 0

IdleSpace ==
  /\ perm_num = 0 /\ perm_out = NoCall(NoArray)
  /\ perm_prev_num = 0 /\ perm_prev_out = NoCall(NoArray)
  /\ flags_row = NoArray /\ names_out = NoCall(NoList)

\* No call recorded.
IdleCalls == earlier = [d \in {} |-> NoCall(NoRecommendation)] /\ again = FALSE

\* The argument and the local variables of a call of interpret_and_calculate
\* that has executed no line yet.
NewFrame(d) ==
  [ args |-> d, raw_data |-> NoList, baseline_row |-> NoArray,
    intervention_rows |-> NoArray, baseline_prediction |-> NoArray,
    intervention_predictions |-> NoArray, result_matrix |-> NoArray,
    result_order |-> <<>>, outcome |-> NoCall(NoRecommendation) ]

\* No concurrent call made.
IdleConc ==
  /\ pc = [t \in Calls |-> "idle"]
  /\ frame = [t \in Calls |-> NewFrame(NoInput)]

\* No call of ClientService made, the tables without rows.
NoRequest ==
  [op |-> "", client_id |-> 0, user_id |-> 0, update |-> NoUpdate,
   skip |-> 0, limit |-> 0, min_rate |-> 0, df |-> <<>>]

IdleClients ==
  /\ clients = <<>> /\ users = <<>> /\ client_cases = <<>>
  /\ request = NoRequest /\ response = NoException /\ returned = NoValue
  /\ db_before = NoRows /\ deleted = {}

\* Module load: MODEL = pickle.load(model_file).
Init ==
  /\ MODEL \in Oracles
  /\ input_data = NoInput
  /\ IdleText /\ IdleEnc /\ IdleRank /\ IdleSpace /\ IdleCalls /\ IdleClients /\ IdleConc

InterpretAndCalculate ==
  \E d \in Inputs :
    \E r \in interpret_and_calculate(MODEL, d) :
      /\ input_data' = d
      /\ top_order' = r.order
      /\ result' = r.outcome
      /\ oracle_calls' = r.predicts
      /\ UNCHANGED <<MODEL, text_data, text_out, output>>
      /\ UNCHANGED <<space_vars, call_vars, conc_vars, client_vars>>

Next == InterpretAndCalculate

Spec == Init /\ [][Next]_vars

\* clean_input_data called on its own, any number of times.
InitEnc ==
  /\ MODEL = Oracle(1, 1, 1)
  /\ input_data = NoInput
  /\ IdleText /\ IdleEnc /\ IdleRank /\ IdleSpace /\ IdleCalls /\ IdleClients /\ IdleConc

CleanInputData ==
  \E d \in EncInputs :
    /\ input_data' = d
    /\ output' = clean_input_data(d)
    /\ UNCHANGED <<MODEL, text_data, text_out, top_order, result, oracle_calls>>
    /\ UNCHANGED <<space_vars, call_vars, conc_vars, client_vars>>

NextEnc == CleanInputData

SpecEnc == InitEnc /\ [][NextEnc]_vars

\* convert_text called on its own, any number of times.
ConvertText ==
  \E s \in Texts :
    /\ text_data' = s
    /\ text_out' = convert_text(s)
    /\ UNCHANGED <<MODEL, input_data, output, top_order, result, oracle_calls>>
    /\ UNCHANGED <<space_vars, call_vars, conc_vars, client_vars>>

NextText == ConvertText

SpecText == InitEnc /\ [][NextText]_vars

\* interpret_and_calculate called again and again in one process, each call
\* recorded.  The sort of a numpy build is not stable but it is a function
\* of the array it sorts: a call with an argument seen before sorts the same
\* scores and gets the order the earlier call got.
InitCalls ==
  /\ MODEL \in CallOracles
  /\ input_data = NoInput
  /\ IdleText /\ IdleEnc /\ IdleRank /\ IdleSpace /\ IdleCalls /\ IdleClients /\ IdleConc

\* Mutant of SameSort: the sort draws the order of equal scores afresh.
SameSortNever(record, d, r) == TRUE

SameSort(record, d, r) == d \in DOMAIN record => r.order = record[d].order

InterpretAndCalculateAgain ==
  \E d \in CallInputs :
    \E r \in interpret_and_calculate(MODEL, d) :
      /\ SameSort(earlier, d, r)
      /\ input_data' = d
      /\ top_order' = r.order
      /\ result' = r.outcome
      /\ oracle_calls' = r.predicts
      /\ again' = (d \in DOMAIN earlier)
      /\ earlier' = IF d \in DOMAIN earlier THEN earlier
                    ELSE [k \in DOMAIN earlier \cup {d} |-> IF k = d THEN r ELSE earlier[k]]
      /\ UNCHANGED <<MODEL, text_data, text_out, output>>
      /\ UNCHANGED <<space_vars, conc_vars, client_vars>>

NextCalls == InterpretAndCalculateAgain

SpecCalls == InitCalls /\ [][NextCalls]_vars

\* The functions of the intervention space called on their own, any number
\* of times.
InterventionPermutations ==
  \E num \in Nums :
    /\ perm_prev_num' = perm_num
    /\ perm_prev_out' = perm_out
    /\ perm_num' = num
    /\ perm_out' = Return(intervention_permutations(num))
    /\ UNCHANGED <<flags_row, names_out>>
    /\ UNCHANGED <<engine_vars, call_vars, conc_vars, client_vars>>

InterventionRowToNames ==
  \E row \in FlagRows :
    /\ flags_row' = row
    /\ names_out' = Return(intervention_row_to_names(row))
    /\ UNCHANGED <<perm_num, perm_out, perm_prev_num, perm_prev_out>>
    /\ UNCHANGED <<engine_vars, call_vars, conc_vars, client_vars>>

NextSpace == InterventionPermutations \/ InterventionRowToNames

SpecSpace == InitEnc /\ [][NextSpace]_vars

\* Concurrent calls of interpret_and_calculate, one per thread, a step being
\* one line of the function.  The names a line reads and assigns are local
\* variables of the call (its frame); MODEL and COLUMN_INTERVENTIONS are
\* globals of the module, which no line assigns.
InitConc ==
  /\ MODEL = ConcOracle
  /\ input_data = NoInput
  /\ IdleText /\ IdleEnc /\ IdleRank /\ IdleSpace /\ IdleCalls /\ IdleClients
  /\ pc = [t \in Calls |-> "186"]
  /\ frame \in [Calls -> { NewFrame(d) : d \in ConcInputs }]

\* Mutant of Locals: the names of the function are globals of the module,
\* one set for all calls (held here by the first call's frame).
LocalsShared(frames, t) == frames[1]

\* The frame in which call t looks up the names of the function.
Locals(frames, t) == frames[t]

\* The call ends: with the value returned or the exception raised.
Finish(t, r) ==
  /\ frame' = [frame EXCEPT ![t].outcome = r]
  /\ pc' = [pc EXCEPT ![t] = "done"]

\* raw_data = clean_input_data(input_data)
Line186(t) ==
  /\ pc[t] = "186"
  /\ LET raw == clean_input_data(Locals(frame, t).args)
     IN  IF Raised(raw)
         THEN Finish(t, Raise(raw.exc, NoRecommendation))
         ELSE /\ frame' = [frame EXCEPT ![t].raw_data = raw.val]
              /\ pc' = [pc EXCEPT ![t] = "187"]
  /\ UNCHANGED <<engine_vars, space_vars, call_vars, client_vars>>

\* baseline_row = get_baseline_row(raw_data).reshape(1, -1)
Line187(t) ==
  /\ pc[t] = "187"
  /\ frame' = [frame EXCEPT ![t].baseline_row =
                 reshape_row(get_baseline_row(Locals(frame, t).raw_data))]
  /\ pc' = [pc EXCEPT ![t] = "188"]
  /\ UNCHANGED <<engine_vars, space_vars, call_vars, client_vars>>

\* intervention_rows = create_matrix(raw_data)
Line188(t) ==
  /\ pc[t] = "188"
  /\ frame' = [frame EXCEPT ![t].intervention_rows = create_matrix(Locals(frame, t).raw_data)]
  /\ pc' = [pc EXCEPT ![t] = "189"]
  /\ UNCHANGED <<engine_vars, space_vars, call_vars, client_vars>>

\* baseline_prediction = MODEL.predict(baseline_row)
Line189(t) ==
  /\ pc[t] = "189"
  /\ LET p == predict(MODEL, Locals(frame, t).baseline_row)
     IN  IF Raised(p)
         THEN Finish(t, Raise(p.exc, NoRecommendation))
         ELSE /\ frame' = [frame EXCEPT ![t].baseline_prediction = p.val]
              /\ pc' = [pc EXCEPT ![t] = "190"]
  /\ UNCHANGED <<engine_vars, space_vars, call_vars, client_vars>>

\* intervention_predictions = MODEL.predict(intervention_rows).reshape(-1, 1)
Line190(t) ==
  /\ pc[t] = "190"
  /\ LET p == predict(MODEL, Locals(frame, t).intervention_rows)
     IN  IF Raised(p)
         THEN Finish(t, Raise(p.exc, NoRecommendation))
         ELSE /\ frame' = [frame EXCEPT ![t].intervention_predictions = reshape_column(p.val)]
              /\ pc' = [pc EXCEPT ![t] = "191"]
  /\ UNCHANGED <<engine_vars, space_vars, call_vars, client_vars>>

\* result_matrix = np.concatenate((intervention_rows, intervention_predictions), axis=1)
Line191(t) ==
  /\ pc[t] = "191"
  /\ frame' = [frame EXCEPT ![t].result_matrix =
                 concatenate_axis1(Locals(frame, t).intervention_rows,
                                   Locals(frame, t).intervention_predictions)]
  /\ pc' = [pc EXCEPT ![t] = "192"]
  /\ UNCHANGED <<engine_vars, space_vars, call_vars, client_vars>>

\* The sort is a function of the array it sorts: a call that sorts the
\* scores another call has sorted gets the order that call got.
SameSortAs(frames, t, scores, order) ==
  \A u \in Calls \ {t} :
    (frames[u].result_order # <<>> /\ LastColumn(frames[u].result_matrix) = scores)
      => order = frames[u].result_order

\* result_order = result_matrix[:, -1].argsort()
Line192(t) ==
  /\ pc[t] = "192"
  /\ \E order \in argsort_tail(LastColumn(Locals(frame, t).result_matrix), TopK, {}) :
       /\ SameSortAs(frame, t, LastColumn(Locals(frame, t).result_matrix), order)
       /\ frame' = [frame EXCEPT ![t].result_order = order]
  /\ pc' = [pc EXCEPT ![t] = "193"]
  /\ UNCHANGED <<engine_vars, space_vars, call_vars, client_vars>>

\* result_matrix = result_matrix[result_order]; top_results =
\* result_matrix[-3:, -8:]; return process_results(baseline_prediction,
\* top_results)
Line193(t) ==
  /\ pc[t] = "193"
  /\ Finish(t, Return(process_results(
                       Locals(frame, t).baseline_prediction,
                       TopResults(Locals(frame, t).result_matrix,
                                  Locals(frame, t).result_order))))
  /\ UNCHANGED <<engine_vars, space_vars, call_vars, client_vars>>

NextConc ==
  \E t \in Calls :
    \/ Line186(t) \/ Line187(t) \/ Line188(t) \/ Line189(t)
    \/ Line190(t) \/ Line191(t) \/ Line192(t) \/ Line193(t)

SpecConc == InitConc /\ [][NextConc]_vars

\* The calls of ClientService, one after the other, on the database of
\* tests/conftest.py.  response is the status the router answers the last
\* call with.
InitClients ==
  /\ MODEL = Oracle(1, 1, 1)
  /\ input_data = NoInput
  /\ IdleText /\ IdleEnc /\ IdleRank /\ IdleSpace /\ IdleCalls /\ IdleConc
  /\ clients = test_db.clients /\ users = test_db.users
  /\ client_cases = test_db.client_cases
  /\ request = NoRequest /\ response = NoException /\ returned = NoValue
  /\ db_before = test_db /\ deleted = {}

\* The database the next call finds.
Db == [clients |-> clients, users |-> users, client_cases |-> client_cases]

\* The call `call` ends as r: the tables are those it leaves, and the router
\* answers with the status of the exception or, when the function returned,
\* with `success`.
Respond(call, r, success) ==
  /\ request' = call
  /\ response' = IF r.exc = NoException THEN success ELSE r.exc
  /\ returned' = r.val
  /\ db_before' = Db
  /\ clients' = r.db.clients
  /\ users' = r.db.users
  /\ client_cases' = r.db.client_cases
  /\ UNCHANGED <<engine_vars, space_vars, call_vars, conc_vars>>

GetClient ==
  \E id \in Ids :
    /\ Respond([NoRequest EXCEPT !.op = "get_client", !.client_id = id],
               get_client(Db, id), HTTP_200_OK)
    /\ UNCHANGED deleted

UpdateClient ==
  \E id \in Ids, client_update \in ClientUpdates :
    /\ Respond([NoRequest EXCEPT !.op = "update_client", !.client_id = id,
                                  !.update = client_update],
               update_client(Db, id, client_update), HTTP_200_OK)
    /\ UNCHANGED deleted

UpdateClientServices ==
  \E id \in Ids, user_id \in Ids, service_update \in ServiceUpdates :
    /\ Respond([NoRequest EXCEPT !.op = "update_client_services", !.client_id = id,
                                  !.user_id = user_id, !.update = service_update],
               update_client_services(Db, id, user_id, service_update), HTTP_200_OK)
    /\ UNCHANGED deleted

CreateCaseAssignment ==
  \E id \in Ids, case_worker_id \in Ids :
    /\ Respond([NoRequest EXCEPT !.op = "create_case_assignment", !.client_id = id,
                                  !.user_id = case_worker_id],
               create_case_assignment(Db, id, case_worker_id), HTTP_200_OK)
    /\ UNCHANGED deleted

GetClients ==
  \E skip \in Skips, limit \in Limits :
    /\ Respond([NoRequest EXCEPT !.op = "get_clients", !.skip = skip, !.limit = limit],
               get_clients(Db, skip, limit), HTTP_200_OK)
    /\ UNCHANGED deleted

DeleteClientCall ==
  \E id \in Ids :
    /\ Respond([NoRequest EXCEPT !.op = "delete_client", !.client_id = id],
               delete_client(Db, id), HTTP_204_NO_CONTENT)
    /\ deleted' = IF delete_client(Db, id).exc = NoException
                  THEN deleted \cup {id} ELSE deleted

NextClients ==
  \/ GetClient \/ UpdateClient \/ UpdateClientServices
  \/ CreateCaseAssignment \/ DeleteClientCall
  \/ GetClients

SpecClients == InitClients /\ [][NextClients]_vars

\* The tables of the fixture and two more clients: the third without a case,
\* the fourth without a case or with a case whose success_rate is null.
InitRates ==
  /\ MODEL = Oracle(1, 1, 1)
  /\ input_data = NoInput
  /\ IdleText /\ IdleEnc /\ IdleRank /\ IdleSpace /\ IdleCalls /\ IdleConc
  /\ clients = test_db.clients \o <<client3, client4>>
  /\ users = test_db.users
  /\ client_cases \in {test_db.client_cases, Append(test_db.client_cases, client_case4)}
  /\ request = NoRequest /\ response = NoException /\ returned = NoValue
  /\ db_before = NoRows /\ deleted = {}

GetClientsBySuccessRate ==
  \E min_rate \in MinRates :
    /\ Respond([NoRequest EXCEPT !.op = "get_clients_by_success_rate",
                                  !.min_rate = min_rate],
               get_clients_by_success_rate(Db, min_rate), HTTP_200_OK)
    /\ UNCHANGED deleted

NextRates == CreateCaseAssignment \/ GetClientsBySuccessRate

SpecRates == InitRates /\ [][NextRates]_vars

\* update_client and update_client_services given a field as null.
UpdateClientOfNull ==
  \E id \in Ids, client_update \in NullClientUpdates :
    /\ Respond([NoRequest EXCEPT !.op = "update_client", !.client_id = id,
                                  !.update = client_update],
               update_client(Db, id, client_update), HTTP_200_OK)
    /\ UNCHANGED deleted

UpdateClientServicesOfNull ==
  \E id \in Ids, user_id \in Ids, service_update \in NullServiceUpdates :
    /\ Respond([NoRequest EXCEPT !.op = "update_client_services", !.client_id = id,
                                  !.user_id = user_id, !.update = service_update],
               update_client_services(Db, id, user_id, service_update), HTTP_200_OK)
    /\ UNCHANGED deleted

NextNulls ==
  \/ CreateCaseAssignment
  \/ UpdateClientOfNull
  \/ UpdateClientServicesOfNull

SpecNulls == InitClients /\ [][NextNulls]_vars

\* Base.metadata.create_all: the tables exist and hold no rows.
InitData ==
  /\ MODEL = Oracle(1, 1, 1)
  /\ input_data = NoInput
  /\ IdleText /\ IdleEnc /\ IdleRank /\ IdleSpace /\ IdleCalls /\ IdleConc
  /\ IdleClients

\* python initialize_data.py: one run from its first line to db.close().
InitializeDatabase ==
  \E df \in DataFrames :
    /\ Len(clients) + Len(df) <= MaxClients
    /\ Respond([NoRequest EXCEPT !.op = "initialize_database", !.df = df],
               initialize_database(Db, df), NoException)
    /\ UNCHANGED deleted

NextData == InitializeDatabase

SpecData == InitData /\ [][NextData]_vars

(***************************************************************************)
(* Properties of interpret_and_calculate (specification Spec)              *)
(***************************************************************************)
Called == DOMAIN input_data # {}

\* The 24 fields of d encode to numbers.
EncodesToNumbers(d) ==
  LET raw == clean_input_data(d)
  IN  Returned(raw) /\ \A k \in 1..Len(raw.val) : IsNumber(raw.val[k])

\* The number an encoded field or a returned score stands for: its own
\* value, or for text the number float() reads in it.
NumberOf(value) == IF IsStr(value) THEN float(value.s).val.n ELSE NumOf(value)

\* The 24 encoded fields of d, as numbers.
Features(d) ==
  LET raw == clean_input_data(d) IN List([k \in 1..Len(raw.val) |-> NumberOf(raw.val[k])])

\* The oracle's score of every candidate, in enumeration order.
CandidateScores(M, features) ==
  List([i \in 1..NumCombinations |-> PredictRow(M, features \o perms.data[i])])

\* The names of candidate i.
CandidateNames(i) == intervention_row_to_names([dtype |-> "int64", data |-> perms.data[i]])

\* The candidates whose names an entry of the returned list carries.
ReturnedCombos(interventions) ==
  { i \in 1..NumCombinations :
      \E j \in 1..Len(interventions) : interventions[j][2] = CandidateNames(i) }

\* C1: for attributes whose fields encode to numbers, the call returns
\* exactly 3 entries, from 3 candidates, each with its own oracle score, and
\* every candidate that is not returned scores no more than the lowest
\* returned score.
C1_TopThreeHighest ==
  (Called /\ EncodesToNumbers(input_data)) =>
    /\ Returned(result)
    /\ LET iv == result.val.interventions
           scores == CandidateScores(MODEL, Features(input_data))
           got == ReturnedCombos(iv)
       IN  /\ Len(iv) = 3
           /\ Cardinality(got) = 3
           /\ \A j \in 1..Len(iv) :
                \E i \in got : /\ iv[j][2] = CandidateNames(i)
                               /\ iv[j][1] = PyFloat(scores[i])
           /\ \A i \in (1..NumCombinations) \ got :
                \A j \in 1..Len(iv) : scores[i] <= iv[j][1].n

\* A call returned, a candidate outside the list ties with the lowest
\* returned score, and the best candidate is not the all-ones combination.
C1_Witness ==
  /\ Called /\ EncodesToNumbers(input_data) /\ Returned(result)
  /\ LET iv == result.val.interventions
         scores == CandidateScores(MODEL, Features(input_data))
     IN  /\ \E i \in (1..NumCombinations) \ ReturnedCombos(iv) : scores[i] = iv[1][1].n
         /\ \E i \in (1..NumCombinations) \ ReturnedCombos(iv) : scores[i] < iv[1][1].n
         /\ Len(iv[3][2]) < NumInterventions

\* C2: in every Recommendation returned, the scores of the list are
\* non-decreasing from first to last, and the last is the largest oracle
\* score of the 128 candidates.
C2_AscendingBestLast ==
  Returned(result) =>
    LET iv == result.val.interventions
        scores == CandidateScores(MODEL, Features(input_data))
    IN  /\ \A j \in 1..(Len(iv) - 1) : NumberOf(iv[j][1]) <= NumberOf(iv[j + 1][1])
        /\ \A i \in 1..NumCombinations : scores[i] <= NumberOf(iv[Len(iv)][1])
        /\ \E i \in 1..NumCombinations : scores[i] = NumberOf(iv[Len(iv)][1])

\* C3: the baseline is the oracle's score of features ++ [0]*7, which is the
\* score the batched call gives candidate row 0 of the same request.
C3_BaselineIsRowZero ==
  Returned(result) =>
    /\ result.val.baseline
         = PyFloat(PredictRow(MODEL, Features(input_data) \o <<0, 0, 0, 0, 0, 0, 0>>))
    /\ result.val.baseline.n
         = predict(MODEL, create_matrix(clean_input_data(input_data).val)).val.data[1]

\* A call returned a baseline that is none of the returned scores and
\* depends on the features.
C3_Witness ==
  /\ Returned(result)
  /\ \A j \in 1..3 : NumberOf(result.val.interventions[j][1]) # result.val.baseline.n
  /\ result.val.baseline.n # PredictRow(MODEL, [k \in 1..NumFeatures |-> 0])

\* The candidate an entry of the returned list names.
ComboOf(names) == CHOOSE i \in 1..NumCombinations : CandidateNames(i) = names

\* C4: the sort is stable with respect to enumeration order: of two
\* candidates with equal scores the one with the lower enumeration index
\* comes earlier, so among tied candidates the ones with the highest
\* indices are the ones returned.
C4_StableTieBreak ==
  (Returned(result) /\ EncodesToNumbers(input_data)) =>
    LET iv == result.val.interventions
        scores == CandidateScores(MODEL, Features(input_data))
    IN  /\ \A j1, j2 \in 1..Len(iv) :
             (j1 < j2 /\ iv[j1][1] = iv[j2][1]) => ComboOf(iv[j1][2]) < ComboOf(iv[j2][2])
        /\ \A j \in 1..Len(iv) :
             \A i \in (1..NumCombinations) \ ReturnedCombos(iv) :
               scores[i] = iv[j][1].n => i < ComboOf(iv[j][2])

\* The training column each intervention name stands for.
TrainingColumnOf(name) ==
  CASE name = "Life Stabilization" -> "life_stabilization"
    [] name = "General Employment Assistance Services" -> "employment_assistance"
    [] name = "Retention Services" -> "retention_services"
    [] name = "Specialized Services" -> "specialized_services"
    [] name = "Employment-Related Financial Supports for Job Seekers and Employers" ->
         "employment_related_financial_supports"
    [] name = "Employer Financial Supports" -> "employer_financial_supports"
    [] name = "Enhanced Referrals for Skills Development" -> "enhanced_referrals"

\* C5: a flag set at position i of a scored row is reported under the name
\* at position i, and that name denotes the intervention of the i-th
\* intervention column the oracle is trained on.
C5_NamesMatchTrainingOrder ==
  (Returned(result) /\ EncodesToNumbers(input_data)) =>
    \A j \in 1..Len(top_order) :
      \A i \in 1..NumInterventions :
        perms.data[top_order[j]][i] = 1 =>
          /\ \E n \in 1..Len(result.val.interventions[j][2]) :
               result.val.interventions[j][2][n] = COLUMN_INTERVENTIONS[i]
          /\ TrainingColumnOf(COLUMN_INTERVENTIONS[i])
               = all_features[Len(feature_columns) + i]

\* C6: position k of the encoded vector holds the field that is the k-th
\* training column, and every candidate row is the 24 features followed by
\* the 7 flags, as all_features lays the training columns out.
C6_ColumnOrderMatchesTraining ==
  (Called /\ EncodesToNumbers(input_data)) =>
    LET features == Features(input_data)
        rows == create_matrix(clean_input_data(input_data).val).data
    IN  /\ Len(columns) = Len(feature_columns)
        /\ \A k \in 1..Len(feature_columns) :
             /\ columns[k] = all_features[k]
             /\ features[k] = NumOf(CleanValue(input_data[all_features[k]]).val)
        /\ \A j \in 1..Len(intervention_columns) :
             all_features[Len(feature_columns) + j] = intervention_columns[j]
        /\ \A i \in 1..NumCombinations :
             /\ Len(rows[i]) = Len(all_features)
             /\ \A k \in 1..Len(feature_columns) : rows[i][k] = features[k]
             /\ \A j \in 1..Len(intervention_columns) :
                  rows[i][Len(feature_columns) + j] = perms.data[i][j]

\* A call was made with attributes that encode to numbers and whose first
\* two fields encode to different numbers.
C6_Witness ==
  /\ Called /\ EncodesToNumbers(input_data) /\ Returned(result)
  /\ Features(input_data)[1] # Features(input_data)[2]

(***************************************************************************)
(* Properties of clean_input_data (specification SpecEnc)                  *)
(***************************************************************************)
HasRequiredFields(d) == \A k \in 1..Len(columns) : columns[k] \in DOMAIN d

\* C7: for a mapping that has the 24 fields the call returns 24 entries, in
\* field order, entry k depending on the value of field k alone: any other
\* input with the same value in field k gets the same entry k, whatever its
\* other fields and its fields beyond the 24.
C7_EncodeLengthOrderLocality ==
  (Called /\ HasRequiredFields(input_data)) =>
    /\ Returned(output)
    /\ Len(output.val) = 24
    /\ \A d \in EncInputs :
         LET other == clean_input_data(d)
         IN  (HasRequiredFields(d) /\ Returned(other)) =>
               \A k \in 1..Len(columns) :
                 d[columns[k]] = input_data[columns[k]] => other.val[k] = output.val[k]

\* The code of a label in the first lexicon that has it.
TableCode(s) ==
  LET i == CHOOSE i \in 1..Len(categorical_mappings) :
             /\ InCategory(categorical_mappings[i], s)
             /\ \A j \in 1..(i - 1) : ~InCategory(categorical_mappings[j], s)
  IN  (CHOOSE e \in categorical_mappings[i] : e.key = s).code

\* C8: a field holding a label of a lexicon is encoded to the label's code
\* in the first lexicon that has it ("Grade 12 or equivalent" 5, "Homeowner"
\* 4, "Yes" 1, "no" 0), and a field holding a native number is passed
\* through unchanged.
C8_LabelsResolveNumbersPass ==
  Returned(output) =>
    \A k \in 1..Len(columns) :
      LET value == input_data[columns[k]]
      IN  /\ (IsStr(value) /\ value.s \in LexiconKeys)
               => output.val[k] = PyInt(TableCode(value.s))
          /\ (IsStr(value) /\ value.s = Grade12) => output.val[k] = PyInt(5)
          /\ (IsStr(value) /\ value.s = Homeowner) => output.val[k] = PyInt(4)
          /\ (IsStr(value) /\ value.s = <<"Y", "e", "s">>) => output.val[k] = PyInt(1)
          /\ (IsStr(value) /\ value.s = <<"n", "o">>) => output.val[k] = PyInt(0)
          /\ IsNumber(value) => output.val[k] = value

\* A call returned for attributes holding the label "Yes", and one for
\* attributes holding a label and a native number.
C8_Witness ==
  /\ Returned(output)
  /\ \/ input_data["housing"] = PyStr(<<"Y", "e", "s">>)
     \/ /\ input_data["housing"] = PyStr(Homeowner)
        /\ input_data["level_of_schooling"] = PyInt(14)

\* C10: when the call completes, every entry of its output is a number.
C10_OutputAllNumbers ==
  Returned(output) => \A k \in 1..Len(output.val) : IsNumber(output.val[k])

(***************************************************************************)
(* Properties of convert_text (specification SpecText)                     *)
(***************************************************************************)
\* C9: for a string that is no label of a lexicon, the call never raises;
\* it returns the integer the string denotes when int() parses it, and the
\* string unchanged otherwise.
C9_IntegerOrUnchanged ==
  (text_out.st # "none" /\ text_data \notin LexiconKeys) =>
    /\ ~Raised(text_out)
    /\ Returned(int(text_data)) => text_out = int(text_data)
    /\ Raised(int(text_data)) => text_out = Return(PyStr(text_data))

(***************************************************************************)
(* Failures of interpret_and_calculate (specification Spec)                *)
(***************************************************************************)
\* C11: when one of the 24 fields is missing from the mapping, the call
\* fails with the KeyError of clean_input_data: clean_input_data gives no
\* list, nothing stands in for the missing field, and MODEL.predict is not
\* called.
C11_MissingFieldKeyError ==
  (Called /\ ~HasRequiredFields(input_data)) =>
    /\ clean_input_data(input_data) = Raise("KeyError", NoList)
    /\ result = Raise("KeyError", NoRecommendation)
    /\ oracle_calls = 0

\* A call failed on a mapping that lacks its last field, or on one that
\* lacks a field after a field that does not convert.
C11_Witness ==
  /\ Called
  /\ Raised(result)
  /\ \/ columns[Len(columns)] \notin DOMAIN input_data
     \/ /\ "time_unemployed" \notin DOMAIN input_data
        /\ input_data["housing"] = PyStr(<<"U+00B2">>)

RECURSIVE SumTo(_, _)
SumTo(row, i) == IF i = 0 THEN 0 ELSE row[i] + SumTo(row, i - 1)

\* The sum of a list of numbers.
Sum(row) == SumTo(row, Len(row))

\* C15: with the oracle that scores a row by the sum of its 31 entries and
\* attributes that encode to numbers, the baseline is sum(features); the
\* last entry is the all-ones combination, all 7 names, with score
\* sum(features) + 7; the first two entries are the combinations of index
\* 125 and 126, in that order, 6 flags each, with score sum(features) + 6.
C15_SumOracleScenario ==
  (Called /\ MODEL = Oracle(1, 1, 1) /\ EncodesToNumbers(input_data)) =>
    /\ Returned(result)
    /\ LET iv == result.val.interventions
           total == Sum(Features(input_data))
       IN  /\ result.val.baseline = PyFloat(total)
           /\ Len(iv) = 3
           /\ iv[3] = <<PyFloat(total + 7), COLUMN_INTERVENTIONS>>
           /\ iv[1] = <<PyFloat(total + 6), CandidateNames(125 + 1)>>
           /\ iv[2] = <<PyFloat(total + 6), CandidateNames(126 + 1)>>
           /\ Len(iv[1][2]) = 6 /\ Len(iv[2][2]) = 6

\* Entry j of the returned list is candidate result_order[-3:][j]: it
\* carries the names of that candidate's flags and the oracle's score of the
\* encoded fields followed by these flags.
PairedWithOwnCombination(j) ==
  /\ top_order[j] \in 1..NumCombinations
  /\ result.val.interventions[j][2] = CandidateNames(top_order[j])
  /\ result.val.interventions[j][1]
       = PyFloat(CandidateScores(MODEL, Features(input_data))[top_order[j]])

\* C24: every (score, names) entry returned carries the names and the
\* oracle's score of one candidate, the names being those of the 7 flags of
\* the candidate and of no field column, and the three entries are three
\* different candidates.
C24_ScoresStayPaired ==
  Returned(result) =>
    /\ Len(result.val.interventions) = TopK
    /\ Len(top_order) = TopK
    /\ \A j \in 1..TopK : PairedWithOwnCombination(j)
    /\ \A j1, j2 \in 1..TopK : top_order[j1] = top_order[j2] => j1 = j2

\* What C24 states, for the calls whose fields encode to numbers.
C24_ScoresStayPairedOfNumbers ==
  (Returned(result) /\ EncodesToNumbers(input_data)) =>
    /\ Len(result.val.interventions) = TopK
    /\ Len(top_order) = TopK
    /\ \A j \in 1..TopK : PairedWithOwnCombination(j)
    /\ \A j1, j2 \in 1..TopK : top_order[j1] = top_order[j2] => j1 = j2

C17_ErrorsPropagate ==
  Called =>
    LET raw == clean_input_data(input_data)
    IN  /\ Raised(raw) => (result = Raise(raw.exc, NoRecommendation) /\ oracle_calls = 0)
        /\ (Returned(raw) /\ Raised(predict(MODEL, reshape_row(get_baseline_row(raw.val)))))
             => (result = Raise("ValueError", NoRecommendation) /\ oracle_calls = 1)
        /\ Raised(result) => (result.val = NoRecommendation /\ top_order = <<>>)
        /\ Returned(result) =>
             /\ result \in { r.outcome : r \in interpret_and_calculate(MODEL, input_data) }
             /\ Len(result.val.interventions) = 3
             /\ oracle_calls = 2

\* A call with attributes not seen before returned after a call that failed
\* in clean_input_data and a call that failed in MODEL.predict.
C17_Witness ==
  /\ Called /\ Returned(result) /\ ~again
  /\ \E d \in DOMAIN earlier :
       earlier[d].outcome = Raise("KeyError", NoRecommendation) /\ earlier[d].predicts = 0
  /\ \E d \in DOMAIN earlier :
       earlier[d].outcome = Raise("ValueError", NoRecommendation) /\ earlier[d].predicts = 1

(***************************************************************************)
(* Properties of the intervention space (specification SpecSpace)          *)
(***************************************************************************)
\* C12: intervention_permutations(7) gives 128 rows of 7 values, each 0 or
\* 1; every vector of {0,1}^7 is exactly one of the rows; and a call that
\* repeats the call before it gives the same rows in the same order.
C12_PermutationsComplete ==
  (Returned(perm_out) /\ perm_num = 7) =>
    LET rows == perm_out.val.data
    IN  /\ Len(rows) = 128
        /\ \A i \in 1..Len(rows) :
             Len(rows[i]) = 7 /\ \A p \in 1..Len(rows[i]) : rows[i][p] \in {0, 1}
        /\ \A i, j \in 1..Len(rows) : rows[i] = rows[j] => i = j
        /\ \A v \in [1..7 -> {0, 1}] : \E i \in 1..Len(rows) : rows[i] = v
        /\ (Returned(perm_prev_out) /\ perm_prev_num = perm_num) => perm_prev_out = perm_out

\* intervention_permutations(7) was called twice in a row.
C12_Witness ==
  /\ Returned(perm_out) /\ perm_num = 7
  /\ Returned(perm_prev_out) /\ perm_prev_num = 7

\* C13: the rows of intervention_permutations(7) count in binary: row i, for
\* i in 0..127, is i written in 7 bits, position 0 the most significant;
\* row 0 is all zeros, row 1 has position 6 alone set, row 127 is all ones.
C13_BinaryCountingOrder ==
  (Returned(perm_out) /\ perm_num = 7) =>
    LET rows == perm_out.val.data
    IN  /\ \A i \in 0..127 :
             \A p \in 0..6 : rows[i + 1][p + 1] = (i \div (2 ^ (6 - p))) % 2
        /\ rows[1] = <<0, 0, 0, 0, 0, 0, 0>>
        /\ rows[2] = <<0, 0, 0, 0, 0, 0, 1>>
        /\ rows[128] = <<1, 1, 1, 1, 1, 1, 1>>

\* intervention_permutations(7) was called after a call with another number.
C13_Witness ==
  /\ Returned(perm_out) /\ perm_num = 7
  /\ Returned(perm_prev_out) /\ perm_prev_num # 7

\* The positions of the flags set in a row.
FlagsSet(row) == { i \in 1..Len(row.data) : row.data[i] = 1 }

\* The n-th smallest element of a set of numbers.
Nth(set, n) == CHOOSE i \in set : Cardinality({ j \in set : j < i }) = n - 1

\* C14: for a vector of 7 flags the call returns, and the list is the names
\* at the positions of the flags set, in increasing position: as many names
\* as flags set, no name twice; none for the all-zero vector, the 7 names
\* in position order for the all-ones vector.
C14_NamesOfFlagsSet ==
  Len(flags_row.data) = 7 =>
    /\ Returned(names_out)
    /\ LET names == names_out.val
           set == FlagsSet(flags_row)
       IN  /\ Len(names) = Cardinality(set)
           /\ \A n \in 1..Len(names) : names[n] = COLUMN_INTERVENTIONS[Nth(set, n)]
           /\ \A n, m \in 1..Len(names) : names[n] = names[m] => n = m
           /\ set = {} => names = <<>>
           /\ set = 1..7 => names = COLUMN_INTERVENTIONS

\* The call was made on a row of floats with some flags set and some not,
\* the first not set and the last set.
C14_Witness ==
  /\ Returned(names_out)
  /\ flags_row.dtype = "float64"
  /\ flags_row.data[1] = 0 /\ flags_row.data[7] = 1
  /\ Len(names_out.val) = 3

(***************************************************************************)
(* Properties of concurrent calls (specification SpecConc)                 *)
(***************************************************************************)
\* Call t has ended.
Done(t) == pc[t] = "done"

\* C18: under any interleaving of the lines of concurrent calls, a call that
\* has ended has the outcome interpret_and_calculate has for its argument
\* when run alone, two calls with the same argument have the same outcome,
\* and MODEL is the oracle loaded at module load.
C18_ConcurrentCallsIsolated ==
  /\ MODEL = ConcOracle
  /\ \A t \in Calls :
       Done(t) =>
         frame[t].outcome \in
           { r.outcome : r \in interpret_and_calculate(ConcOracle, frame[t].args) }
  /\ \A t \in Calls, u \in Calls :
       (Done(t) /\ Done(u) /\ frame[t].args = frame[u].args)
         => frame[t].outcome = frame[u].outcome

\* C18 witness: two calls with different arguments have both returned a
\* recommendation, and differ in it.
C18_Witness ==
  /\ Done(1) /\ Done(2)
  /\ Returned(frame[1].outcome) /\ Returned(frame[2].outcome)
  /\ frame[1].args # frame[2].args
  /\ frame[1].outcome # frame[2].outcome

\* Call t has executed line 188: its candidate rows are built.
HasRows(t) == frame[t].intervention_rows # NoArray

\* Python's == between the entry x of an array of the given dtype and a
\* Python value: a string equals only the same string, a number a number
\* of the same value (True counting as 1).
EntryEquals(x, dtype, value) ==
  IF dtype = "str" THEN IsStr(value) /\ value.s = x
  ELSE IsNumber(value) /\ NumOf(value) = x

\* Entry for entry, row a of an array of dtype da equals row b of an array
\* of dtype db.
RowEquals(a, da, b, db) ==
  /\ Len(a) = Len(b)
  /\ (da = "str") = (db = "str")
  /\ \A k \in 1..Len(a) : a[k] = b[k]

\* The candidate rows of call t are 128 rows of 31 entries, row i being the
\* encoded fields of the call followed by combination i.
RowsAreFeaturesAndFlags(t) ==
  LET rows == frame[t].intervention_rows
      raw == frame[t].raw_data
  IN  /\ Len(rows.data) = NumCombinations
      /\ \A i \in 1..NumCombinations :
           /\ Len(rows.data[i]) = Len(columns) + NumInterventions
           /\ \A k \in 1..Len(columns) : EntryEquals(rows.data[i][k], rows.dtype, raw[k])
           /\ \A j \in 1..NumInterventions :
                EntryEquals(rows.data[i][Len(columns) + j], rows.dtype,
                            PyInt(perms.data[i][j]))

\* C23: create_matrix builds 128 rows of 31 entries, row i being the encoded
\* fields followed by combination i of intervention_permutations(7); row 0
\* equals the baseline row entry for entry; the list of encoded fields is as
\* clean_input_data returned it.
C23_CandidateRows ==
  \A t \in Calls :
    HasRows(t) =>
      /\ RowsAreFeaturesAndFlags(t)
      /\ RowEquals(frame[t].intervention_rows.data[1], frame[t].intervention_rows.dtype,
                   frame[t].baseline_row.data[1], frame[t].baseline_row.dtype)
      /\ frame[t].raw_data = clean_input_data(frame[t].args).val

\* The encoded fields of call t are numbers.
NumbersOnly(t) == \A k \in 1..Len(frame[t].raw_data) : IsNumber(frame[t].raw_data[k])

\* What C23 states, for the calls whose encoded fields are numbers.
C23_CandidateRowsOfNumbers ==
  \A t \in Calls :
    (HasRows(t) /\ NumbersOnly(t)) =>
      /\ RowsAreFeaturesAndFlags(t)
      /\ RowEquals(frame[t].intervention_rows.data[1], frame[t].intervention_rows.dtype,
                   frame[t].baseline_row.data[1], frame[t].baseline_row.dtype)
      /\ frame[t].raw_data = clean_input_data(frame[t].args).val

(***************************************************************************)
(* Properties of ClientService (specification SpecClients)                 *)
(***************************************************************************)
\* The last call was `op`.
Requested(op) == request.op = op

\* C19: after any sequence of calls no two cases have the same (client_id,
\* user_id), and create_case_assignment for a pair that had a case is
\* answered with 400 and leaves table client_cases, so every case with its
\* services and success_rate, as it was.
C19_OneCasePerPair ==
  /\ \A i, j \in 1..Len(client_cases) :
       (/\ client_cases[i].client_id = client_cases[j].client_id
        /\ client_cases[i].user_id = client_cases[j].user_id) => i = j
  /\ (/\ Requested("create_case_assignment")
      /\ \E i \in 1..Len(db_before.client_cases) :
           /\ db_before.client_cases[i].client_id = request.client_id
           /\ db_before.client_cases[i].user_id = request.user_id)
       => /\ response = HTTP_400_BAD_REQUEST
          /\ client_cases = db_before.client_cases

\* C19 witness: create_case_assignment was called for a pair whose case had
\* been updated (success_rate 80), and was answered with 400.
C19_Witness ==
  /\ Requested("create_case_assignment")
  /\ response = HTTP_400_BAD_REQUEST
  /\ \E i \in 1..Len(client_cases) :
       /\ client_cases[i].client_id = request.client_id
       /\ client_cases[i].user_id = request.user_id
       /\ client_cases[i].success_rate = PyInt(80)

\* The rows of `rows` outside `gone`, a set of positions.
RowsExcept(rows, gone) ==
  LET kept == { i \in 1..Len(rows) : i \notin gone }
  IN  [k \in 1..Cardinality(kept) |->
         rows[CHOOSE i \in kept : Cardinality({ j \in kept : j < i }) = k - 1]]

\* C20: a delete_client(id) answered with 204 found the client, removed its
\* row and every case with client_id = id and left every other row of the
\* three tables as it was; a deleted client has no row and no case, after
\* any sequence of calls; get_client and delete_client for a client deleted
\* earlier are answered with 404.
C20_DeleteRemovesClientAndCases ==
  /\ (Requested("delete_client") /\ response = HTTP_204_NO_CONTENT)
       => /\ \E i \in 1..Len(db_before.clients) : db_before.clients[i].id = request.client_id
          /\ clients = RowsExcept(db_before.clients,
                                { i \in 1..Len(db_before.clients) :
                                    db_before.clients[i].id = request.client_id })
          /\ client_cases = RowsExcept(db_before.client_cases,
                                     { i \in 1..Len(db_before.client_cases) :
                                         db_before.client_cases[i].client_id = request.client_id })
          /\ users = db_before.users
  /\ \A id \in deleted :
       /\ \A i \in 1..Len(clients) : clients[i].id # id
       /\ \A i \in 1..Len(client_cases) : client_cases[i].client_id # id
  /\ (Requested("get_client") /\ request.client_id \in deleted)
       => response = HTTP_404_NOT_FOUND
  /\ (/\ Requested("delete_client") /\ request.client_id \in deleted
      /\ \A i \in 1..Len(db_before.clients) : db_before.clients[i].id # request.client_id)
       => response = HTTP_404_NOT_FOUND

\* C20 witness: a client that had a case was deleted, a second delete_client
\* for it was answered with 404, and the other client and its case are
\* still stored.
C20_Witness ==
  /\ Requested("delete_client")
  /\ response = HTTP_404_NOT_FOUND
  /\ request.client_id \in deleted
  /\ \E i \in 1..Len(test_db.client_cases) :
       test_db.client_cases[i].client_id = request.client_id
  /\ clients # <<>>
  /\ client_cases # <<>>

\* The client id of the last call belonged to no client.
NoSuchClient == \A i \in 1..Len(db_before.clients) : db_before.clients[i].id # request.client_id

\* C21: get_client, update_client and delete_client for an id that no client
\* has are answered with 404 and leave tables clients and client_cases as
\* they were; get_client for an id a client has returns the client with
\* that id, as the table holds it.
C21_UnknownClientNotFound ==
  /\ ((Requested("get_client") \/ Requested("update_client") \/ Requested("delete_client"))
        /\ NoSuchClient)
       => /\ response = HTTP_404_NOT_FOUND
          /\ clients = db_before.clients
          /\ client_cases = db_before.client_cases
  /\ (Requested("get_client") /\ ~NoSuchClient)
       => /\ response = HTTP_200_OK
          /\ returned.id = request.client_id
          /\ \E i \in 1..Len(db_before.clients) : db_before.clients[i] = returned
          /\ clients = db_before.clients
          /\ client_cases = db_before.client_cases

\* C21 witness: update_client for an id that no client has was answered with
\* 404, with clients and cases stored.
C21_Witness ==
  /\ Requested("update_client")
  /\ NoSuchClient
  /\ response = HTTP_404_NOT_FOUND
  /\ clients # <<>>
  /\ client_cases # <<>>

\* The positions of the rows of the client of the last call, in table
\* clients as it was before the call.
ClientRows ==
  { i \in 1..Len(db_before.clients) : db_before.clients[i].id = request.client_id }

\* C22: an update_client answered with 200 has set the columns supplied in
\* the update to the values supplied, on the client with the id given, and
\* returns that row; the other columns of the row, its id among them, the
\* rows of the other clients and tables client_cases and users are as they
\* were.
C22_UpdateSetsSuppliedFields ==
  (Requested("update_client") /\ response = HTTP_200_OK) =>
    /\ Cardinality(ClientRows) = 1
    /\ Len(clients) = Len(db_before.clients)
    /\ \A i \in 1..Len(clients) :
         IF i \in ClientRows
         THEN /\ returned = clients[i]
              /\ clients[i].id = request.client_id
              /\ DOMAIN clients[i] = DOMAIN db_before.clients[i]
              /\ \A field \in DOMAIN clients[i] :
                   clients[i][field] = IF field \in DOMAIN request.update
                                       THEN request.update[field]
                                       ELSE db_before.clients[i][field]
         ELSE clients[i] = db_before.clients[i]
    /\ client_cases = db_before.client_cases
    /\ users = db_before.users

\* C22 witness: update_client changed the age of a client from 25 to 26,
\* with another client stored.
C22_Witness ==
  /\ Requested("update_client")
  /\ response = HTTP_200_OK
  /\ returned.age = PyInt(26)
  /\ \E i \in ClientRows : db_before.clients[i].age = PyInt(25)
  /\ Len(clients) = 2

\* The user id of the last call belonged to no user.
NoSuchUser == \A i \in 1..Len(db_before.users) : db_before.users[i].id # request.user_id

\* The names of the 7 service columns of a case.
ServiceFlags ==
  { "employment_assistance", "life_stabilization", "retention_services",
    "specialized_services", "employment_related_financial_supports",
    "employer_financial_supports", "enhanced_referrals" }

\* C25: create_case_assignment for a client or a user that does not exist is
\* answered with 404 and leaves the three tables as they were; answered with
\* 200, the client and the user exist, and table client_cases is as before
\* with one row more, the case of the pair with its 7 services False and
\* success_rate 0, which is returned; clients and users are as before.
C25_CaseOnlyForExistingPair ==
  Requested("create_case_assignment") =>
    /\ (NoSuchClient \/ NoSuchUser)
         => /\ response = HTTP_404_NOT_FOUND
            /\ Db = db_before
    /\ response # HTTP_200_OK => Db = db_before
    /\ response = HTTP_200_OK
         => /\ ~NoSuchClient /\ ~NoSuchUser
            /\ Len(client_cases) = Len(db_before.client_cases) + 1
            /\ SubSeq(client_cases, 1, Len(db_before.client_cases)) = db_before.client_cases
            /\ LET case == client_cases[Len(client_cases)]
               IN  /\ case.client_id = request.client_id
                   /\ case.user_id = request.user_id
                   /\ \A flag \in ServiceFlags : case[flag] = PyBool(FALSE)
                   /\ case.success_rate = PyInt(0)
                   /\ DOMAIN case = ServiceFlags \cup {"client_id", "user_id", "success_rate"}
                   /\ returned = case
            /\ clients = db_before.clients
            /\ users = db_before.users

\* C25 witness: create_case_assignment added a third case to the two stored.
C25_Witness ==
  /\ Requested("create_case_assignment")
  /\ response = HTTP_200_OK
  /\ Len(db_before.client_cases) = 2
  /\ Len(client_cases) = 3

\* The positions of the cases of the pair of the last call, in table
\* client_cases as it was before the call.
CaseRows ==
  { i \in 1..Len(db_before.client_cases) :
      /\ db_before.client_cases[i].client_id = request.client_id
      /\ db_before.client_cases[i].user_id = request.user_id }

\* C26: update_client_services for a pair without a case is answered with
\* 404 and leaves the three tables as they were; for a pair with a case it
\* is answered with 200 and sets the columns supplied in the update to the
\* values supplied on that case, which it returns; the other columns of the
\* case, its client_id and user_id among them, the other cases, and tables
\* clients and users are as they were, and no case is added.
C26_ServicesUpdateOneCase ==
  Requested("update_client_services") =>
    /\ Len(client_cases) = Len(db_before.client_cases)
    /\ clients = db_before.clients
    /\ users = db_before.users
    /\ CaseRows = {} => (response = HTTP_404_NOT_FOUND /\ client_cases = db_before.client_cases)
    /\ CaseRows # {}
         => /\ response = HTTP_200_OK
            /\ Cardinality(CaseRows) = 1
            /\ \A i \in 1..Len(client_cases) :
                 IF i \in CaseRows
                 THEN /\ returned = client_cases[i]
                      /\ DOMAIN client_cases[i] = DOMAIN db_before.client_cases[i]
                      /\ \A field \in DOMAIN client_cases[i] :
                           client_cases[i][field]
                             = IF field \in DOMAIN request.update
                               THEN request.update[field]
                               ELSE db_before.client_cases[i][field]
                 ELSE client_cases[i] = db_before.client_cases[i]

\* C26 witness: update_client_services set life_stabilization and
\* success_rate on a case created by create_case_assignment, with other
\* cases stored.
C26_Witness ==
  /\ Requested("update_client_services")
  /\ response = HTTP_200_OK
  /\ returned.success_rate = PyInt(80)
  /\ returned.life_stabilization = PyBool(TRUE)
  /\ \E i \in CaseRows : db_before.client_cases[i] = new_case(request.client_id, request.user_id)
  /\ Len(client_cases) = 3

\* The number of clients a page holds that skips `skip` of n clients and is
\* limited to `limit`.
PageLen(n, skip, limit) ==
  IF skip >= n THEN 0 ELSE IF n - skip <= limit THEN n - skip ELSE limit

\* C27: get_clients with skip < 0 or limit < 1 is answered with 400;
\* otherwise it returns the clients at positions skip .. skip + limit - 1 of
\* table clients (counted from 0), as many as there are, and total, the
\* number of clients stored; the three tables are as they were.
C27_ClientsPage ==
  Requested("get_clients") =>
    /\ Db = db_before
    /\ (request.skip < 0 \/ request.limit < 1)
         => (response = HTTP_400_BAD_REQUEST /\ returned = NoValue)
    /\ (request.skip >= 0 /\ request.limit >= 1)
         => /\ response = HTTP_200_OK
            /\ returned.total = Len(clients)
            /\ Len(returned.clients) <= request.limit
            /\ Len(returned.clients) = PageLen(Len(clients), request.skip, request.limit)
            /\ \A k \in 1..Len(returned.clients) :
                 returned.clients[k] = clients[request.skip + k]

\* C27 witness: of two clients stored, get_clients with skip 1 and limit 1
\* returned the second, with total 2.
C27_Witness ==
  /\ Requested("get_clients")
  /\ response = HTTP_200_OK
  /\ request.skip = 1 /\ request.limit = 1
  /\ Len(clients) = 2
  /\ returned.total = 2
  /\ returned.clients = <<clients[2]>>

(***************************************************************************)
(* Properties of get_clients_by_success_rate (specification SpecRates)     *)
(***************************************************************************)
\* The positions of the cases of client c.
CasesOfClient(c) == { i \in 1..Len(client_cases) : client_cases[i].client_id = c.id }

\* The clients a list holds.
Members(rows) == { rows[k] : k \in 1..Len(rows) }

Within(value, lo, hi) == value.t = "int" /\ value.n >= lo /\ value.n <= hi

\* A stored number that is lo at least.
NotBelow(value, lo) == value.t = "int" /\ value.n >= lo

\* Every case and every client stored has its numbers within the bounds.
StoredWithinBounds ==
  /\ \A i \in 1..Len(client_cases) : Within(client_cases[i].success_rate, 0, 100)
  /\ \A k \in 1..Len(clients) :
       /\ NotBelow(clients[k].age, 18)
       /\ Within(clients[k].gender, 1, 2)
       /\ Within(clients[k].level_of_schooling, 1, 14)
       /\ Within(clients[k].reading_english_scale, 0, 10)
       /\ Within(clients[k].speaking_english_scale, 0, 10)
       /\ Within(clients[k].writing_english_scale, 0, 10)
       /\ Within(clients[k].numeracy_scale, 0, 10)
       /\ Within(clients[k].computer_scale, 0, 10)
       /\ Within(clients[k].housing, 1, 10)
       /\ Within(clients[k].income_source, 1, 11)

\* C29: after any sequence of create_case_assignment, update_client_services
\* and update_client calls whose updates pass their schema, updates with a
\* field given as null among them, every case stored has success_rate in
\* 0..100 and every client stored has age >= 18, gender 1 or 2,
\* level_of_schooling in 1..14, the five scales in 0..10, housing in 1..10 and
\* income_source in 1..11.
C29_StoredWithinBounds == StoredWithinBounds

\* The same of updates that give every field a value: the calls of
\* specification SpecClients.
C29_StoredWithinBoundsOfValues ==
  (request.op # "" /\ \A field \in DOMAIN request.update : request.update[field] # PyNone)
    => StoredWithinBounds

(***************************************************************************)
(* Properties of initialize_database (specification SpecData)              *)
(***************************************************************************)
\* The number of users named username.
Named(username) == Len(SelectSeq(users, LAMBDA u : u.username = username))

\* The clients the last run committed: those past the clients it found.
CommittedByRun == (Len(db_before.clients) + 1)..Len(clients)

\* Client k has a case assigned to the user named admin.
HasAdminCase(k) ==
  \E i \in 1..Len(client_cases), j \in 1..Len(users) :
    /\ client_cases[i].client_id = clients[k].id
    /\ client_cases[i].user_id = users[j].id
    /\ users[j].username = "admin"

\* C30: after every run of initialize_database, a run that found the admin
\* user present among them, there is exactly one user named admin and one
\* named case_worker1, and every client the run committed has a case assigned
\* to the admin user.
C30_RunsLeaveClientsWithCases ==
  Requested("initialize_database") =>
    /\ Named("admin") = 1
    /\ Named("case_worker1") = 1
    /\ \A k \in CommittedByRun : HasAdminCase(k)

\* The part of it about the users, and the whole of it for a run that found
\* no admin user.
C30_RunsLeaveClientsWithCasesOfFirstRun ==
  Requested("initialize_database") =>
    /\ Named("admin") = 1
    /\ Named("case_worker1") = 1
    /\ Len(users) = 2
    /\ db_before.users = <<>> => \A k \in CommittedByRun : HasAdminCase(k)
    /\ db_before.users = <<>> => Cardinality(CommittedByRun) <= Len(request.df)

====
